---- MODULE Spec2Model ----
(***************************************************************************)
(* Retrieval-verification-generation pipeline of the DegreeFYD assistant:  *)
(* process_query (src/src/rag_chain.py) with its result cache, the         *)
(* verifier (src/src/self_rag.py) and the calls process_query makes into   *)
(* the router, the semantic search and the verifier.                       *)
(*                                                                         *)
(* Specifications:                                                         *)
(*   Spec         process_query, driven by its callers                     *)
(*   SpecCache    Spec and direct _set_cached calls                        *)
(*   SpecEvict    the cache filled beyond its capacity, with reading calls *)
(*   SpecThreads  _set_cached statement by statement in overlapping threads*)
(*   SpecGen      query_with_web_search and the endpoints' use of it       *)
(*   SpecRouter   route_query (src/src/query_router.py)                    *)
(*   SpecVerifier check_relevance and rephrase_query (src/src/self_rag.py) *)
(*   SpecHeuristic should_use_web_search (src/src/web_search.py)           *)
(*   SpecLazy     the lazy getters of vector_store and self_rag in threads *)
(*   SpecHandlers build_prompt_context of the five category handlers       *)
(*   SpecRetrieval _get_raw_docs and its post-filter                       *)
(*   SpecStream   the event stream of chat_stream, one next() at a time    *)
(*                                                                         *)
(* Text is a sequence of one-character strings, so that strip() and        *)
(* lower() are computed and not assumed.  An answer of an external service *)
(* is a record [ok, ...]: ok = FALSE is the call raising.                  *)
(***************************************************************************)
EXTENDS Naturals, Sequences, FiniteSets, TLC

VARIABLES
    query_cache,         \* rag_chain._query_cache: key -> stored result
    cache_keys,          \* rag_chain._cache_keys: insertion-ordered list of keys
    pc,                  \* position of the current process_query run
    query,               \* argument query of the current run
    web_search_enabled,  \* argument web_search_enabled of the current run
    stream,              \* argument stream of the current run
    route_result,        \* what route_query returned to the run
    raw_docs,            \* raw_docs of the run (attempt 1)
    trace,               \* the run's calls, in order: route_query, _get_raw_docs and, once
                         \* their body runs, check_relevance, rephrase_query,
                         \* _build_context and query_with_web_search
    outcome,             \* how the run ended: a returned result or a raised exception
    prev,                \* the non-streaming call that ended before the current one
    stored,              \* keys handed to _set_cached so far, in call order
    threads,             \* the _set_cached calls in progress, one per request thread
    probe,               \* the last direct application of a module function
    globals,             \* the module-level handles _embedding_fn, _chroma_client,
                         \* _collection (vector_store) and _client (self_rag)
    constructed,         \* per handle, how many times its constructor has run
    observed,            \* per getter, the handles it has returned to its callers
    frames,              \* per request thread, its stack of getter calls in progress
    completion,          \* the streamed completion a stream endpoint is reading
    pulled,              \* how many of its chunks have been pulled from the service
    delivered,           \* how many content fragments the consumer has received
    consumer             \* what the consumer of the event stream is doing

vars == <<query_cache, cache_keys, pc, query, web_search_enabled, stream,
          route_result, raw_docs, trace, outcome, prev, stored, threads, probe,
          globals, constructed, observed, frames,
          completion, pulled, delivered, consumer>>

\* The state of the lazily created handles.
lazy == <<globals, constructed, observed, frames>>

\* The state of an event stream in progress.
sse == <<completion, pulled, delivered, consumer>>

(***************************************************************************)
(* Bounds of the model                                                     *)
(***************************************************************************)
MaxDocs == 2           \* documents a semantic search returns (the code asks for 5)
MaxInserts == 2        \* direct _set_cached calls in SpecCache
ExtraInserts == 3      \* _set_cached calls beyond the capacity in SpecEvict
MaxThreads == 2        \* request threads inside _set_cached at once in SpecThreads
MaxChunks == 3         \* chunks of a streamed completion in SpecGen

(***************************************************************************)
(* Text                                                                    *)
(***************************************************************************)
Queries == {<<"a">>, <<"A", " ">>, <<"b">>}

UpperLetters == 
    <<"A", "B", "C", "D", "E", "F", "G", "H", "I", "J", "K", "L", "M",
      "N", "O", "P", "Q", "R", "S", "T", "U", "V", "W", "X", "Y", "Z">>

LowerLetters == 
    <<"a", "b", "c", "d", "e", "f", "g", "h", "i", "j", "k", "l", "m",
      "n", "o", "p", "q", "r", "s", "t", "u", "v", "w", "x", "y", "z">>

DigitChars == <<"0", "1", "2", "3", "4", "5", "6", "7", "8", "9">>

\* Blank characters, as str.strip() and the regex class \s take them.
Whitespace == {" ", "\n", "\t"}

\* Word characters, as the regex class \w takes them.
WordChars ==
    {LowerLetters[i] : i \in 1..26} \cup {UpperLetters[i] : i \in 1..26}
        \cup {DigitChars[i] : i \in 1..10} \cup {"_"}

\* str.lower() and str.upper() on one character.  The replies of the
\* classifier are written with a field name or a value as one element;
\* "category" is the one such element that is not in capitals already.
LowerChar(c) ==
    IF \E i \in 1..26 : UpperLetters[i] = c
    THEN LowerLetters[CHOOSE i \in 1..26 : UpperLetters[i] = c]
    ELSE c

UpperChar(c) ==
    IF \E i \in 1..26 : LowerLetters[i] = c
    THEN UpperLetters[CHOOSE i \in 1..26 : LowerLetters[i] = c]
    ELSE IF c = "category" THEN "CATEGORY"
    ELSE c

Lower(s) == [i \in 1..Len(s) |-> LowerChar(s[i])]

Upper(s) == [i \in 1..Len(s) |-> UpperChar(s[i])]

RECURSIVE LStripChars(_, _)
LStripChars(s, cs) ==
    IF s # <<>> /\ Head(s) \in cs THEN LStripChars(Tail(s), cs) ELSE s

RECURSIVE RStripChars(_, _)
RStripChars(s, cs) ==
    IF s # <<>> /\ s[Len(s)] \in cs
    THEN RStripChars(SubSeq(s, 1, Len(s) - 1), cs)
    ELSE s

StripChars(s, cs) == RStripChars(LStripChars(s, cs), cs)

Strip(s) == StripChars(s, Whitespace)

(***************************************************************************)
(* Result cache                                                            *)
(***************************************************************************)
CACHE_MAX == 128

None == [none |-> TRUE]

\* _cache_key without the strip and the lower-casing.
CacheKeyRaw(q, web) == <<q, web>>

\* md5 of "<stripped, lowercased query>|<True or False>": the digest is taken
\* as injective, and the text before the last "|" with the flag after it is
\* the pair.
CacheKey(q, web) == <<Lower(Strip(q)), web>>

GetCached(key) == IF key \in DOMAIN query_cache THEN query_cache[key] ELSE None

\* Truth value of a cached lookup: None is false, a stored result (a
\* non-empty dict) is true.
Truthy(cached) == cached # None

\* SetCached that drops the oldest key from the list and leaves its entry in
\* the dict.
SetCachedKeepsEntry(key, value) ==
    LET full == Len(cache_keys) >= CACHE_MAX
        keys1 == IF full THEN Tail(cache_keys) ELSE cache_keys
    IN  /\ query_cache' = [k \in DOMAIN query_cache \cup {key} |->
                              IF k = key THEN value ELSE query_cache[k]]
        /\ cache_keys' = Append(keys1, key)

\* SetCached that evicts only once the list is longer than CACHE_MAX.
SetCachedOffByOne(key, value) ==
    LET full == Len(cache_keys) > CACHE_MAX
        oldest == Head(cache_keys)
        keys1 == IF full THEN Tail(cache_keys) ELSE cache_keys
        dom1 == IF full THEN DOMAIN query_cache \ {oldest} ELSE DOMAIN query_cache
    IN  /\ query_cache' = [k \in dom1 \cup {key} |->
                              IF k = key THEN value ELSE query_cache[k]]
        /\ cache_keys' = Append(keys1, key)

SetCached(key, value) ==
    LET full == Len(cache_keys) >= CACHE_MAX
        oldest == Head(cache_keys)
        keys1 == IF full THEN Tail(cache_keys) ELSE cache_keys
        dom1 == IF full THEN DOMAIN query_cache \ {oldest} ELSE DOMAIN query_cache
    IN  /\ query_cache' = [k \in dom1 \cup {key} |->
                              IF k = key THEN value ELSE query_cache[k]]
        /\ cache_keys' = Append(keys1, key)

\* _OUT_OF_SCOPE_RESPONSE, the fixed redirect text.
OUT_OF_SCOPE_RESPONSE == <<"r", "e", "d", "i", "r", "e", "c", "t">>

(***************************************************************************)
(* Router, as process_query sees it                                        *)
(***************************************************************************)
CATEGORIES == {"COLLEGE", "EXAM", "COMPARISON", "PREDICTOR", "TOP_COLLEGES", "GENERAL"}

NoName == [none |-> TRUE]

\* The dict route_query returns on both of its paths; location and
\* rank_score are None or a text.
RouteResults ==
    { [category |-> c, college_names |-> e[1], exam_names |-> e[2],
       location |-> NoName, rank_score |-> NoName] :
         c \in CATEGORIES,
         e \in { <<<<>>, <<>>>>, << <<<<"v">>>>, <<>> >>, << <<>>, <<<<"j">>>> >> } }

NoRoute == [none |-> TRUE]

(***************************************************************************)
(* Raw-document retrieval                                                  *)
(***************************************************************************)
\* What the semantic search answers: it raises (ok = FALSE), or returns up
\* to MaxDocs documents; hits[i] tells whether document i mentions one of
\* the requested college names in its content or url.
SearchOutcomes ==
    {[ok |-> FALSE, hits |-> <<>>]} \cup
    {[ok |-> TRUE, hits |-> h] : h \in UNION {[1..n -> BOOLEAN] : n \in 0..MaxDocs}}

RECURSIVE JoinSpace(_)
JoinSpace(names) ==
    IF names = <<>> THEN <<>>
    ELSE IF Len(names) = 1 THEN names[1]
    ELSE names[1] \o <<" ">> \o JoinSpace(Tail(names))

EnrichedQuery(q, college_names, exam_names) ==
    IF college_names # <<>> THEN JoinSpace(college_names) \o <<" ">> \o q
    ELSE IF exam_names # <<>> THEN JoinSpace(exam_names) \o <<" ">> \o q
    ELSE q

DocType(category) ==
    CASE category = "COLLEGE" -> "college"
      [] category = "EXAM" -> "exam"
      [] category = "COMPARISON" -> "comparison"
      [] category \in {"PREDICTOR", "TOP_COLLEGES"} -> "college"
      [] OTHER -> "any"

RECURSIVE SelectSeq2(_, _)
SelectSeq2(s, keep) ==
    IF s = <<>> THEN <<>>
    ELSE IF keep[Head(s).rank] THEN <<Head(s)>> \o SelectSeq2(Tail(s), keep)
    ELSE SelectSeq2(Tail(s), keep)

\* GetRawDocs that keeps the filtered list even when the filter emptied it.
GetRawDocsNoFallback(q, category, college_names, exam_names, hits) ==
    LET enriched == EnrichedQuery(q, college_names, exam_names)
        docs == [i \in 1..Len(hits) |->
                    [search |-> enriched, type |-> DocType(category),
                     rank |-> i, mentions |-> hits[i]]]
    IN  IF category = "COLLEGE" /\ college_names # <<>>
        THEN SelectSeq2(docs, hits)
        ELSE docs

\* _get_raw_docs on a search that returned `hits`.
GetRawDocs(q, category, college_names, exam_names, hits) ==
    LET enriched == EnrichedQuery(q, college_names, exam_names)
        docs == [i \in 1..Len(hits) |->
                    [search |-> enriched, type |-> DocType(category),
                     rank |-> i, mentions |-> hits[i]]]
        filtered == SelectSeq2(docs, hits)
    IN  IF category = "COLLEGE" /\ college_names # <<>> /\ filtered # <<>>
        THEN filtered
        ELSE docs

(***************************************************************************)
(* Verifier (self_rag.py)                                                  *)
(***************************************************************************)
Relevant == <<"r", "e", "l", "e", "v", "a", "n", "t">>
Partial == <<"p", "a", "r", "t", "i", "a", "l">>
Irrelevant == <<"i", "r">> \o Relevant

\* What the fast-mode completion answers to the verifier's prompt.
VerdictReplies ==
    {[ok |-> FALSE, text |-> <<>>]} \cup
    {[ok |-> TRUE, text |-> t] :
        t \in {Relevant, Partial, Irrelevant, <<" ", "R">> \o Tail(Relevant), <<"a">>, <<>>}}

\* CheckRelevance that asks the completion service for an empty document
\* list too.
CheckRelevanceAsksAnyway(docs, reply) ==
    IF ~reply.ok THEN Partial
    ELSE LET verdict == Lower(Strip(reply.text))
         IN  IF verdict \in {Relevant, Partial, Irrelevant} THEN verdict ELSE Partial

\* CheckRelevance that takes the answer as it comes, neither trimmed nor
\* lower-cased.
CheckRelevanceRaw(docs, reply) ==
    IF docs = <<>> THEN Irrelevant
    ELSE IF ~reply.ok THEN Partial
    ELSE IF reply.text \in {Relevant, Partial, Irrelevant} THEN reply.text ELSE Partial

\* check_relevance(query, docs) with the completion answering `reply`.
CheckRelevance(docs, reply) ==
    IF docs = <<>> THEN Irrelevant
    ELSE IF ~reply.ok THEN Partial
    ELSE LET verdict == Lower(Strip(reply.text))
         IN  IF verdict \in {Relevant, Partial, Irrelevant} THEN verdict ELSE Partial

\* What the fast-mode completion answers to the rephrase prompt of query q.
RephraseReplies(q) ==
    {[ok |-> FALSE, text |-> <<>>]} \cup
    {[ok |-> TRUE, text |-> t] :
        t \in {<<>>, <<" ">>, q, <<"dq">> \o q \o <<"dq">>, q \o <<"b">>}}

\* RephraseQuery that returns the reformulation even when nothing is left
\* of it.
RephraseQueryKeepsEmpty(q, reply) ==
    IF ~reply.ok THEN q
    ELSE StripChars(StripChars(Strip(reply.text), {"dq"}), {"sq"})

\* rephrase_query(query, category) with the completion answering `reply`;
\* "dq" and "sq" are the double and the single quote character.
RephraseQuery(q, reply) ==
    IF ~reply.ok THEN q
    ELSE LET rephrased == StripChars(StripChars(Strip(reply.text), {"dq"}), {"sq"})
         IN  IF rephrased # <<>> THEN rephrased ELSE q

\* Parameters check_relevance declares, in order; none has a default.
CheckRelevanceParams == <<"query", "docs">>

\* Python's binding of a call's arguments to a function's parameters (none
\* with a default, no *args or **kwargs): every keyword names a parameter
\* that no positional argument filled, and every parameter is filled.
CallBinds(params, npositional, keywords) ==
    /\ npositional <= Len(params)
    /\ keywords \subseteq {params[i] : i \in (npositional + 1)..Len(params)}
    /\ npositional + Cardinality(keywords) = Len(params)

(***************************************************************************)
(* process_query                                                           *)
(***************************************************************************)
NoOutcome == [kind |-> "none"]
Returned(value) == [kind |-> "result", value |-> value]
Raised(exc) == [kind |-> "raised", exc |-> exc]

NoPrev == [none |-> TRUE]

NoEntities ==
    [college_names |-> <<>>, exam_names |-> <<>>,
     location |-> NoName, rank_score |-> NoName]

\* The dict process_query assembles after generation (rag_chain.py:295-308).
PipelineResult(response, category, use_web, has_results, auto_web_triggered, entities) ==
    [response |-> response, category |-> category, web_search_used |-> use_web,
     has_local_results |-> has_results, auto_web_triggered |-> auto_web_triggered,
     out_of_scope |-> FALSE, entities |-> entities]

Ended == {"returned", "raised"}

\* The threads of the server's pool that run the synchronous endpoints.
Threads == 1..MaxThreads

NoKey == [none |-> TRUE]

\* A thread that is not inside _set_cached.
ThreadIdle == [at |-> "idle", key |-> NoKey, value |-> None, oldest |-> NoKey]

NoProbe == [fn |-> "none"]

\* The module-level names that hold a lazily created handle, each with the
\* getter that fills it.
Singletons == {"_embedding_fn", "_chroma_client", "_collection", "_client"}

Init ==
    /\ query_cache = << >>
    /\ cache_keys = << >>
    /\ pc = "idle"
    /\ query = <<>>
    /\ web_search_enabled = FALSE
    /\ stream = FALSE
    /\ route_result = NoRoute
    /\ raw_docs = <<>>
    /\ trace = <<>>
    /\ outcome = NoOutcome
    /\ prev = NoPrev
    /\ stored = <<>>
    /\ threads = [t \in Threads |-> ThreadIdle]
    /\ probe = NoProbe
    /\ globals = [g \in Singletons |-> None]
    /\ constructed = [g \in Singletons |-> 0]
    /\ observed = [g \in Singletons |-> {}]
    /\ frames = [t \in Threads |-> <<>>]
    /\ completion = [ok |-> TRUE, chunks |-> <<>>]
    /\ pulled = 0
    /\ delivered = 0
    /\ consumer = "none"

\* ProcessQueryCall with a cache hit that routes the query again and returns
\* the stored result under the fresh category.
ProcessQueryCallReroutes(q, w, s, rr) ==
    /\ pc = "idle"
    /\ query' = q
    /\ web_search_enabled' = w
    /\ stream' = s
    /\ IF ~s /\ Truthy(GetCached(CacheKey(q, w)))
       THEN /\ pc' = "returned"
            /\ outcome' = Returned([GetCached(CacheKey(q, w)) EXCEPT !.category = rr.category])
            /\ trace' = <<[call |-> "route", query |-> q]>>
            /\ route_result' = rr
       ELSE /\ pc' = "routed"
            /\ outcome' = NoOutcome
            /\ trace' = <<[call |-> "route", query |-> q]>>
            /\ route_result' = rr
    /\ UNCHANGED <<query_cache, cache_keys, raw_docs, prev, stored, threads, probe, lazy, sse>>

\* ProcessQueryCall that looks the key up in streaming mode too.
ProcessQueryCallCachesStreams(q, w, s, rr) ==
    /\ pc = "idle"
    /\ query' = q
    /\ web_search_enabled' = w
    /\ stream' = s
    /\ IF Truthy(GetCached(CacheKey(q, w)))
       THEN /\ pc' = "returned"
            /\ outcome' = Returned(GetCached(CacheKey(q, w)))
            /\ trace' = <<>>
            /\ route_result' = NoRoute
       ELSE /\ pc' = "routed"
            /\ outcome' = NoOutcome
            /\ trace' = <<[call |-> "route", query |-> q]>>
            /\ route_result' = rr
    /\ UNCHANGED <<query_cache, cache_keys, raw_docs, prev, stored, threads, probe, lazy, sse>>

\* ProcessQueryCall with a cache hit that moves the key to the young end of
\* the key list (least-recently-used order).
ProcessQueryCallTouches(q, w, s, rr) ==
    /\ pc = "idle"
    /\ query' = q
    /\ web_search_enabled' = w
    /\ stream' = s
    /\ IF ~s /\ Truthy(GetCached(CacheKey(q, w)))
       THEN /\ pc' = "returned"
            /\ outcome' = Returned(GetCached(CacheKey(q, w)))
            /\ trace' = <<>>
            /\ route_result' = NoRoute
            /\ cache_keys' = Append(SelectSeq(cache_keys, LAMBDA k : k # CacheKey(q, w)),
                                    CacheKey(q, w))
       ELSE /\ pc' = "routed"
            /\ outcome' = NoOutcome
            /\ trace' = <<[call |-> "route", query |-> q]>>
            /\ route_result' = rr
            /\ cache_keys' = cache_keys
    /\ UNCHANGED <<query_cache, raw_docs, prev, stored, threads, probe, lazy, sse>>

\* process_query(q, w, s), called once the call before it has ended.  The
\* cache check; on a miss, step 1: route_query answers rr.
ProcessQueryCall(q, w, s, rr) ==
    /\ pc = "idle"
    /\ query' = q
    /\ web_search_enabled' = w
    /\ stream' = s
    /\ IF ~s /\ Truthy(GetCached(CacheKey(q, w)))
       THEN /\ pc' = "returned"
            /\ outcome' = Returned(GetCached(CacheKey(q, w)))
            /\ trace' = <<>>
            /\ route_result' = NoRoute
       ELSE /\ pc' = "routed"
            /\ outcome' = NoOutcome
            /\ trace' = <<[call |-> "route", query |-> q]>>
            /\ route_result' = rr
    /\ UNCHANGED <<query_cache, cache_keys, raw_docs, prev, stored, threads, probe, lazy, sse>>

\* Step 2, attempt 1: _get_raw_docs(query, category, ...).  The search has
\* no handler around it: when it raises, process_query raises.
Retrieve1(found) ==
    /\ pc = "routed"
    /\ trace' = Append(trace, [call |-> "retrieve", query |-> query])
    /\ IF found.ok
       THEN /\ raw_docs' = GetRawDocs(query, route_result.category,
                                      route_result.college_names,
                                      route_result.exam_names, found.hits)
            /\ pc' = "retrieved"
            /\ outcome' = outcome
       ELSE /\ raw_docs' = raw_docs
            /\ pc' = "raised"
            /\ outcome' = Raised("SearchError")
    /\ UNCHANGED <<query_cache, cache_keys, query, web_search_enabled, stream,
                   route_result, prev, stored, threads, probe, lazy, sse>>

\* Keyword arguments of the call check_relevance(query, raw_docs,
\* entities=entities or None) at rag_chain.py:213, after its two positional
\* arguments.
Verify1Keywords == {"entities"}

\* Verify1 with the failed verifier call swallowed: the run generates from
\* the documents it never verified.
Verify1Swallowed ==
    /\ pc = "retrieved"
    /\ pc' = "returned"
    /\ trace' = Append(trace, [call |-> "generate", query |-> query,
                                web |-> web_search_enabled])
    /\ outcome' = Returned(PipelineResult(<<"x">>, route_result.category,
                                          web_search_enabled, raw_docs # <<>>, FALSE,
                                          NoEntities))
    /\ UNCHANGED <<query_cache, cache_keys, query, web_search_enabled, stream,
                   route_result, raw_docs, prev, stored, threads, probe, lazy, sse>>

\* Step 2, the ISREL check of attempt 1.  The call names a keyword that
\* check_relevance (self_rag.py:27) does not declare: Python raises
\* TypeError while binding the arguments, before the verifier's body runs,
\* and nothing in process_query catches it.  No run gets past this call,
\* so rag_chain.py:214-315 has no action here.
Verify1 ==
    /\ pc = "retrieved"
    /\ ~CallBinds(CheckRelevanceParams, 2, Verify1Keywords)
    /\ pc' = "raised"
    /\ outcome' = Raised("TypeError")
    /\ UNCHANGED <<query_cache, cache_keys, query, web_search_enabled, stream,
                   route_result, raw_docs, trace, prev, stored, threads, probe, lazy, sse>>

\* The caller (api/main.py chat and chat_stream, scripts/test_queries.py)
\* takes the result or the exception of the call; the run's locals are gone.
CallerReceives ==
    /\ pc \in Ended
    /\ prev' = IF ~stream
               THEN [query |-> query, web_search_enabled |-> web_search_enabled,
                     outcome |-> outcome]
               ELSE prev
    /\ pc' = "idle"
    /\ query' = <<>>
    /\ web_search_enabled' = FALSE
    /\ stream' = FALSE
    /\ route_result' = NoRoute
    /\ raw_docs' = <<>>
    /\ trace' = <<>>
    /\ outcome' = NoOutcome
    /\ UNCHANGED <<query_cache, cache_keys, stored, threads, probe, lazy, sse>>

Next ==
    \/ \E q \in Queries, w \in BOOLEAN, s \in BOOLEAN, rr \in RouteResults :
          ProcessQueryCall(q, w, s, rr)
    \/ \E found \in SearchOutcomes : Retrieve1(found)
    \/ Verify1
    \/ CallerReceives

Spec == Init /\ [][Next]_vars

(***************************************************************************)
(* The cache functions applied directly, next to process_query             *)
(***************************************************************************)
CacheKeys == {CacheKey(q, w) : q \in Queries, w \in BOOLEAN}

CacheValues ==
    {PipelineResult(<<"x">>, c, w, TRUE, FALSE, NoEntities) :
        c \in {"COLLEGE", "GENERAL"}, w \in {FALSE}} \cup
    {PipelineResult(<<"y">>, "EXAM", TRUE, FALSE, TRUE, NoEntities)}

\* _set_cached(key, value) called between two process_query calls.
DirectSetCached(key, value) ==
    /\ pc = "idle"
    /\ Len(cache_keys) < MaxInserts
    /\ SetCached(key, value)
    /\ UNCHANGED <<pc, query, web_search_enabled, stream, route_result,
                   raw_docs, trace, outcome, prev, stored, threads, probe, lazy, sse>>

CacheSpecRoutes ==
    {rr \in RouteResults :
        rr.category \in {"GENERAL", "COLLEGE"} /\ rr.college_names = <<>> /\ rr.exam_names = <<>>}

CacheSpecSearches == {f \in SearchOutcomes : f.hits = <<>>}

NextCache ==
    \/ \E key \in CacheKeys, value \in CacheValues : DirectSetCached(key, value)
    \/ \E q \in Queries, w \in BOOLEAN, s \in BOOLEAN, rr \in CacheSpecRoutes :
          ProcessQueryCall(q, w, s, rr)
    \/ \E found \in CacheSpecSearches : Retrieve1(found)
    \/ Verify1
    \/ CallerReceives

SpecCache == Init /\ [][NextCache]_vars

(***************************************************************************)
(* The cache filled beyond its capacity: _set_cached applied directly, as  *)
(* line 311 of process_query applies it (after the lookup of the same key  *)
(* missed at lines 187-190), next to process_query calls that read.        *)
(***************************************************************************)
\* str(n), the decimal text of a natural number.
RECURSIVE DecimalText(_)
DecimalText(n) ==
    IF n < 10 THEN <<DigitChars[n + 1]>>
    ELSE DecimalText(n \div 10) \o <<DigitChars[(n % 10) + 1]>>

\* The n-th (query, toggle) pair the callers store: the queries "1", "2",
\* ..., each with the toggle on and then off.
EvictQuery(n) == DecimalText((n + 1) \div 2)
EvictToggle(n) == n % 2 = 1
EvictKey(n) == CacheKey(EvictQuery(n), EvictToggle(n))

\* The result stored under a key.
EvictValue(key) == PipelineResult(<<"x">>, "COLLEGE", key[2], TRUE, FALSE, NoEntities)

Range(s) == {s[i] : i \in 1..Len(s)}

\* _set_cached(key, value) for a key whose lookup misses.  New pairs are
\* taken in the order of EvictKey; a pair stored before may come again once
\* it is gone from the cache.
DirectStore(key) ==
    /\ pc = "idle"
    /\ Len(stored) < CACHE_MAX + ExtraInserts
    /\ ~Truthy(GetCached(key))
    /\ SetCached(key, EvictValue(key))
    /\ stored' = Append(stored, key)
    /\ UNCHANGED <<pc, query, web_search_enabled, stream, route_result,
                   raw_docs, trace, outcome, prev, threads, probe, lazy, sse>>

\* The queries of the reading calls: the first stored query, as typed with
\* blanks around it.
EvictSpecQueries == {<<" ">> \o EvictQuery(1) \o <<" ">>}

EvictSpecRoutes == {rr \in CacheSpecRoutes : rr.category = "COLLEGE"}

\* The next store: a pair stored before, or the first pair not stored yet.
StoreNext == \E n \in 1..(Cardinality(Range(stored)) + 1) : DirectStore(EvictKey(n))

NextEvict ==
    \/ StoreNext
    \/ \E q \in EvictSpecQueries, w \in BOOLEAN, s \in BOOLEAN, rr \in EvictSpecRoutes :
          ProcessQueryCall(q, w, s, rr)
    \/ \E found \in CacheSpecSearches : Retrieve1(found)
    \/ Verify1
    \/ CallerReceives

SpecEvict == Init /\ [][NextEvict]_vars

(***************************************************************************)
(* _set_cached under overlapping requests.  The synchronous endpoints run  *)
(* in the threads of the server's pool; _set_cached takes no lock, so a    *)
(* thread may be switched out between any two of its statements (each      *)
(* statement's list or dict operation is atomic).                          *)
(***************************************************************************)
\* The cache one insertion below its capacity, as CACHE_MAX - 1 sequential
\* insertions of DirectStore leave it.
NearlyFullKeys == [n \in 1..(CACHE_MAX - 1) |-> EvictKey(n)]

InitThreads ==
    /\ cache_keys = NearlyFullKeys
    /\ query_cache = [k \in Range(NearlyFullKeys) |-> EvictValue(k)]
    /\ stored = NearlyFullKeys
    /\ pc = "idle"
    /\ query = <<>>
    /\ web_search_enabled = FALSE
    /\ stream = FALSE
    /\ route_result = NoRoute
    /\ raw_docs = <<>>
    /\ trace = <<>>
    /\ outcome = NoOutcome
    /\ prev = NoPrev
    /\ threads = [t \in Threads |-> ThreadIdle]
    /\ probe = NoProbe
    /\ globals = [g \in Singletons |-> None]
    /\ constructed = [g \in Singletons |-> 0]
    /\ observed = [g \in Singletons |-> {}]
    /\ frames = [t \in Threads |-> <<>>]
    /\ completion = [ok |-> TRUE, chunks |-> <<>>]
    /\ pulled = 0
    /\ delivered = 0
    /\ consumer = "none"

pipeline == <<pc, query, web_search_enabled, stream, route_result, raw_docs,
              trace, outcome, prev, probe, lazy, sse>>

\* The keys of the requests that are inside _set_cached while the cache has
\* no entry for them yet: a request with the same key has missed the cache
\* as well (rag_chain.py:187-190) and comes to line 311 with it.
MissedTogether(t) ==
    {threads[u].key : u \in {v \in Threads \ {t} : /\ threads[v].at # "idle"
                                                    /\ threads[v].key \notin DOMAIN query_cache}}

\* Thread t enters _set_cached(key, value): with the next new pair, or with
\* the key of an overlapping request that missed the cache together with it.
SetCachedCall(t) ==
    /\ threads[t].at = "idle"
    /\ Len(stored) < CACHE_MAX + ExtraInserts
    /\ \E key \in {EvictKey(Len(stored) + 1)} \cup MissedTogether(t) :
           /\ threads' = [threads EXCEPT ![t] =
                             [at |-> "check", key |-> key, value |-> EvictValue(key),
                              oldest |-> NoKey]]
           /\ stored' = Append(stored, key)
    /\ UNCHANGED <<query_cache, cache_keys, pipeline>>

\* if len(_cache_keys) >= _CACHE_MAX:
SetCachedCheck(t) ==
    /\ threads[t].at = "check"
    /\ threads' = [threads EXCEPT ![t].at =
                      IF Len(cache_keys) >= CACHE_MAX THEN "pop" ELSE "put"]
    /\ UNCHANGED <<query_cache, cache_keys, stored, pipeline>>

\* oldest = _cache_keys.pop(0)
SetCachedPop(t) ==
    /\ threads[t].at = "pop"
    /\ cache_keys # <<>>
    /\ threads' = [threads EXCEPT ![t].at = "drop", ![t].oldest = Head(cache_keys)]
    /\ cache_keys' = Tail(cache_keys)
    /\ UNCHANGED <<query_cache, stored, pipeline>>

\* _query_cache.pop(oldest, None)
SetCachedDrop(t) ==
    /\ threads[t].at = "drop"
    /\ query_cache' = [k \in DOMAIN query_cache \ {threads[t].oldest} |-> query_cache[k]]
    /\ threads' = [threads EXCEPT ![t].at = "put"]
    /\ UNCHANGED <<cache_keys, stored, pipeline>>

\* _query_cache[key] = value
SetCachedPut(t) ==
    /\ threads[t].at = "put"
    /\ query_cache' = [k \in DOMAIN query_cache \cup {threads[t].key} |->
                          IF k = threads[t].key THEN threads[t].value ELSE query_cache[k]]
    /\ threads' = [threads EXCEPT ![t].at = "append"]
    /\ UNCHANGED <<cache_keys, stored, pipeline>>

\* _cache_keys.append(key), and the call returns.
SetCachedAppend(t) ==
    /\ threads[t].at = "append"
    /\ cache_keys' = Append(cache_keys, threads[t].key)
    /\ threads' = [threads EXCEPT ![t] = ThreadIdle]
    /\ UNCHANGED <<query_cache, stored, pipeline>>

NextThreads ==
    \/ \E t \in Threads : SetCachedCall(t)
    \/ \E t \in Threads : SetCachedCheck(t)
    \/ \E t \in Threads : SetCachedPop(t)
    \/ \E t \in Threads : SetCachedDrop(t)
    \/ \E t \in Threads : SetCachedPut(t)
    \/ \E t \in Threads : SetCachedAppend(t)

SpecThreads == InitThreads /\ [][NextThreads]_vars

(***************************************************************************)
(* Generation: query_with_web_search (src/src/web_search.py) applied       *)
(* directly, and the endpoints' handling of what it returns.  (Inside      *)
(* process_query the call at rag_chain.py:288 lies behind the relevance    *)
(* check that no run gets past.)                                           *)
(***************************************************************************)
GenContexts == {<<>>, <<"c">>}

\* What the completion service answers to a non-streaming request: the call
\* raises (ok = FALSE, error is str(e)), or returns the message content.
GenReplies ==
    {[ok |-> FALSE, error |-> <<"t">>]} \cup
    {[ok |-> TRUE, content |-> t] : t \in {<<"h">>, <<"h", "i">>, <<>>}}

\* A chunk pulled from a streamed completion: a delta with content (possibly
\* empty), or the pull raising.
GenChunks ==
    {[ok |-> FALSE, error |-> <<"t">>]} \cup
    {[ok |-> TRUE, content |-> t] : t \in {<<"h">>, <<>>}}

\* What the completion service answers to a streaming request: the call
\* raises, or returns an iterator of up to MaxChunks chunks.
GenStreams ==
    {[ok |-> FALSE, error |-> <<"t">>]} \cup
    {[ok |-> TRUE, chunks |-> c] : c \in UNION {[1..n -> GenChunks] : n \in 0..MaxChunks}}

\* f"Error querying Groq: {str(e)}"
GroqErrorText(e) == <<"Error querying Groq: ">> \o e

\* The request built at web_search.py:27-63.
GenRequest(q, context, web, s) ==
    [system_has_context |-> context # <<>>, user |-> q,
     enabled_tools |-> IF web THEN {"web_search"} ELSE {}, stream |-> s]

\* What a Python generator does on the successive pulls of its consumer: it
\* yields a value, or raises; after a raise, or after its last item, it is
\* exhausted.
Yield(content) == [kind |-> "yield", content |-> content]
Raise(error) == [kind |-> "raise", content |-> error]

\* response_generator(): the non-empty contents of the chunks, until the
\* iterator ends or a pull raises (the for loop is outside the try block).
RECURSIVE ResponseGenerator(_)
ResponseGenerator(chunks) ==
    IF chunks = <<>> THEN <<>>
    ELSE IF ~Head(chunks).ok THEN <<Raise(Head(chunks).error)>>
    ELSE IF Head(chunks).content # <<>>
         THEN <<Yield(Head(chunks).content)>> \o ResponseGenerator(Tail(chunks))
         ELSE ResponseGenerator(Tail(chunks))

\* query_with_web_search(query, context, web_search_enabled, stream) with the
\* completion service answering gen: a text, or a generator.
QueryWithWebSearch(s, gen) ==
    IF ~gen.ok
    THEN IF s THEN <<Yield(GroqErrorText(gen.error))>> ELSE GroqErrorText(gen.error)
    ELSE IF s THEN ResponseGenerator(gen.chunks) ELSE gen.content

\* The response loop of chat_stream's generate() (api/main.py:226-235) over a
\* generator: a chunk event per yielded value, then the done event; a raise
\* inside the loop ends the stream with one error event.
RECURSIVE StreamEvents(_)
StreamEvents(items) ==
    IF items = <<>> THEN <<[type |-> "done", content |-> <<>>]>>
    ELSE IF Head(items).kind = "raise"
         THEN <<[type |-> "error", content |-> Head(items).content]>>
    ELSE <<[type |-> "chunk", content |-> Head(items).content]>>
            \o StreamEvents(Tail(items))

\* query_with_web_search(..., stream=False) is called, and its return value
\* becomes the answer of the result (rag_chain.py:295-296, api/main.py:194-195).
GenerateComplete(q, context, web, gen) ==
    /\ probe' = [fn |-> "query_with_web_search",
                 request |-> GenRequest(q, context, web, FALSE),
                 gen |-> gen,
                 out |-> Returned(QueryWithWebSearch(FALSE, gen)),
                 events |-> <<>>]
    /\ UNCHANGED <<query_cache, cache_keys, pc, query, web_search_enabled, stream,
                   route_result, raw_docs, trace, outcome, prev, stored, threads, lazy, sse>>

\* query_with_web_search(..., stream=True) is called, and the stream
\* endpoint's loop sends what the returned generator yields.
GenerateStream(q, context, web, gen) ==
    /\ probe' = [fn |-> "query_with_web_search",
                 request |-> GenRequest(q, context, web, TRUE),
                 gen |-> gen,
                 out |-> Returned(QueryWithWebSearch(TRUE, gen)),
                 events |-> <<[type |-> "meta", content |-> <<>>]>>
                               \o StreamEvents(QueryWithWebSearch(TRUE, gen))]
    /\ UNCHANGED <<query_cache, cache_keys, pc, query, web_search_enabled, stream,
                   route_result, raw_docs, trace, outcome, prev, stored, threads, lazy, sse>>

NextGen ==
    \/ \E q \in Queries, context \in GenContexts, w \in BOOLEAN, gen \in GenReplies :
          GenerateComplete(q, context, w, gen)
    \/ \E q \in Queries, context \in GenContexts, w \in BOOLEAN, gen \in GenStreams :
          GenerateStream(q, context, w, gen)

SpecGen == Init /\ [][NextGen]_vars

(***************************************************************************)
(* The event stream of chat_stream (src/api/main.py) over the generator    *)
(* that query_with_web_search(stream=True) returns, one next() at a time.  *)
(* The consumer is the loop that iterates generate(): it asks for the next *)
(* event, receives it, and may stop between two events.                    *)
(***************************************************************************)
everything_else ==
    <<query_cache, cache_keys, pc, query, web_search_enabled, stream, route_result,
      raw_docs, trace, outcome, prev, stored, threads, probe, lazy>>

\* The first next() on generate(): the streaming completion call is issued
\* and the meta event is sent.
StreamOpen(gen) ==
    /\ consumer \in {"none", "ended", "stopped"}
    /\ completion' = gen
    /\ pulled' = 0
    /\ delivered' = 0
    /\ consumer' = "ready"
    /\ UNCHANGED everything_else

\* The consumer calls next() for one more event.
ConsumerAsk ==
    /\ consumer = "ready"
    /\ consumer' = "waiting"
    /\ UNCHANGED <<completion, pulled, delivered, everything_else>>

\* The consumer goes away between two events.
ConsumerStop ==
    /\ consumer = "ready"
    /\ consumer' = "stopped"
    /\ UNCHANGED <<completion, pulled, delivered, everything_else>>

\* A GeneratorPull that does not wait for the consumer: it reads ahead.
GeneratorPullAhead ==
    /\ consumer \in {"ready", "waiting", "stopped"}
    /\ completion.ok
    /\ pulled < Len(completion.chunks)
    /\ pulled' = pulled + 1
    /\ UNCHANGED <<completion, delivered, consumer, everything_else>>

\* One turn of the running generator while a next() is pending: the
\* error_generator yields its text and is then exhausted; response_generator
\* pulls one chunk from the completion, yields its content if it has any,
\* loops if it has none, and lets a raising pull through to the except
\* branch of generate(), which sends the error event; at the end of the
\* chunks generate() sends the done event.
GeneratorPull ==
    /\ consumer = "waiting"
    /\ IF ~completion.ok
       THEN /\ delivered' = IF delivered = 0 THEN 1 ELSE delivered
            /\ consumer' = IF delivered = 0 THEN "ready" ELSE "ended"
            /\ UNCHANGED pulled
       ELSE IF pulled = Len(completion.chunks)
       THEN /\ consumer' = "ended"
            /\ UNCHANGED <<pulled, delivered>>
       ELSE LET chunk == completion.chunks[pulled + 1]
            IN  /\ pulled' = pulled + 1
                /\ delivered' = IF chunk.ok /\ chunk.content # <<>>
                                THEN delivered + 1 ELSE delivered
                /\ consumer' = IF ~chunk.ok THEN "ended"
                               ELSE IF chunk.content # <<>> THEN "ready"
                               ELSE "waiting"
    /\ UNCHANGED <<completion, everything_else>>

NextStream ==
    \/ \E gen \in GenStreams : StreamOpen(gen)
    \/ ConsumerAsk
    \/ ConsumerStop
    \/ GeneratorPull

SpecStream == Init /\ [][NextStream]_vars

(***************************************************************************)
(* Router (src/src/query_router.py)                                        *)
(***************************************************************************)
\* The texts of fast_route's patterns.
ComparisonWords ==
    {
    <<"v", "s">>,
    <<"v", "e", "r", "s", "u", "s">>,
    <<"c", "o", "m", "p", "a", "r", "e">>,
    <<"c", "o", "m", "p", "a", "r", "i", "s", "o", "n">> }

exam_keywords ==
    {
    <<"e", "x", "a", "m", " ", "d", "a", "t", "e">>,
    <<"a", "d", "m", "i", "t", " ", "c", "a", "r", "d">>,
    <<"e", "x", "a", "m", " ", "p", "a", "t", "t", "e", "r", "n">>,
    <<"s", "y", "l", "l", "a", "b", "u", "s">>,
    <<"r", "e", "s", "u", "l", "t", " ", "d", "a", "t", "e">>,
    <<"a", "p", "p", "l", "i", "c", "a", "t", "i", "o", "n", " ", "f", "o", "r", "m">>,
    <<"m", "o", "c", "k", " ", "t", "e", "s", "t">>,
    <<"r", "e", "g", "i", "s", "t", "r", "a", "t", "i", "o", "n", " ", "d", "e", "a", "d", "l", "i", "n", "e">> }

college_specific ==
    {
    <<"a", "d", "m", "i", "s", "s", "i", "o", "n", " ", "t", "o">>,
    <<"a", "d", "m", "i", "s", "s", "i", "o", "n", " ", "i", "n">>,
    <<"a", "d", "m", "i", "s", "s", "i", "o", "n", " ", "p", "r", "o", "c", "e", "s", "s">>,
    <<"h", "o", "w", " ", "t", "o", " ", "g", "e", "t", " ", "i", "n", "t", "o">>,
    <<"f", "e", "e", " ", "a", "t">>,
    <<"f", "e", "e", "s", " ", "a", "t">>,
    <<"f", "e", "e", " ", "s", "t", "r", "u", "c", "t", "u", "r", "e">>,
    <<"h", "o", "s", "t", "e", "l", " ", "a", "t">>,
    <<"p", "l", "a", "c", "e", "m", "e", "n", "t", " ", "a", "t">>,
    <<"s", "c", "h", "o", "l", "a", "r", "s", "h", "i", "p", " ", "a", "t">>,
    <<"c", "a", "m", "p", "u", "s", " ", "l", "i", "f", "e">>,
    <<"c", "o", "u", "r", "s", "e", "s", " ", "a", "t">>,
    <<"f", "a", "c", "i", "l", "i", "t", "i", "e", "s", " ", "a", "t">> }

TopWords ==
    {
    <<"t", "o", "p">>,
    <<"b", "e", "s", "t">>,
    <<"r", "a", "n", "k", "e", "d">>,
    <<"p", "o", "p", "u", "l", "a", "r">> }

COLLEGE_TEXT == <<"c", "o", "l", "l", "e", "g", "e">>
RANK == <<"r", "a", "n", "k">>
PERCENTILE == <<"p", "e", "r", "c", "e", "n", "t", "i", "l", "e">>
SCORE == <<"s", "c", "o", "r", "e">>
CAN_I_GET == <<"c", "a", "n", " ", "i", " ", "g", "e", "t">>
WHICH_COLLEGES == <<"w", "h", "i", "c", "h", " ", "c", "o", "l", "l", "e", "g", "e", "s">>

\* s has the text w at position i.
MatchAt(s, i, w) ==
    i >= 1 /\ i + Len(w) - 1 <= Len(s) /\ SubSeq(s, i, i + Len(w) - 1) = w

\* `w in s`
Contains(s, w) == \E i \in 1..Len(s) : MatchAt(s, i, w)

IsWordAt(s, i) == i \in 1..Len(s) /\ s[i] \in WordChars

\* The regex \b at the place before position i: a word character on exactly
\* one side.
Boundary(s, i) == IsWordAt(s, i - 1) # IsWordAt(s, i)

\* re.search(r'\bw\b', s)
WordAt(s, i, w) == Boundary(s, i) /\ MatchAt(s, i, w) /\ Boundary(s, i + Len(w))
HasWord(s, w) == \E i \in 1..Len(s) : WordAt(s, i, w)

IsDigitAt(s, i) == i \in 1..Len(s) /\ \E d \in 1..10 : DigitChars[d] = s[i]

Blanks(s, i, j) == \A k \in i..j : s[k] \in Whitespace

\* re.search(r'\bw\b.*\bcollege', s)
WordThenCollege(s, w) ==
    \E i \in 1..Len(s) :
        /\ WordAt(s, i, w)
        /\ \E j \in (i + Len(w))..Len(s) :
              Boundary(s, j) /\ MatchAt(s, j, COLLEGE_TEXT)

\* re.search(r'\d+\s*(?:k1|k2|...)', s)
DigitsThen(s, kws) ==
    \E i \in 1..Len(s) :
        /\ IsDigitAt(s, i)
        /\ \E j \in (i + 1)..Len(s) :
              Blanks(s, i + 1, j - 1) /\ \E kw \in kws : MatchAt(s, j, kw)

\* re.search(r'(?:k1|k2|...)\s*\d+', s)
ThenDigits(s, kws) ==
    \E i \in 1..Len(s) : \E kw \in kws :
        /\ MatchAt(s, i, kw)
        /\ \E j \in (i + Len(kw))..Len(s) :
              Blanks(s, i + Len(kw), j - 1) /\ IsDigitAt(s, j)

\* re.search(r'\bwhich colleges.*\d+', s)
WhichCollegesDigits(s) ==
    \E i \in 1..Len(s) :
        /\ Boundary(s, i)
        /\ MatchAt(s, i, WHICH_COLLEGES)
        /\ \E j \in (i + Len(WHICH_COLLEGES))..Len(s) : IsDigitAt(s, j)

\* fast_route's result when no pattern matches (Python's None).
NoCategory == "None"

\* fast_route(query)
FastRoute(q) ==
    LET query_lower == Lower(q)
    IN  IF \E w \in ComparisonWords : HasWord(query_lower, w) THEN "COMPARISON"
        ELSE IF \E kw \in exam_keywords : Contains(query_lower, kw) THEN "EXAM"
        ELSE IF \E kw \in college_specific : Contains(query_lower, kw) THEN "COLLEGE"
        ELSE IF /\ \E w \in TopWords : WordThenCollege(query_lower, w)
                /\ ~DigitsThen(query_lower, {RANK, PERCENTILE, SCORE})
             THEN "TOP_COLLEGES"
        ELSE IF \/ DigitsThen(query_lower, {RANK, PERCENTILE})
                \/ ThenDigits(query_lower, {RANK, PERCENTILE, SCORE})
                \/ HasWord(query_lower, CAN_I_GET)
                \/ WhichCollegesDigits(query_lower)
             THEN "PREDICTOR"
        ELSE NoCategory

\* The first position of element c in s, or 0.
IndexOf(s, c) ==
    IF \E i \in 1..Len(s) : s[i] = c
    THEN CHOOSE i \in 1..Len(s) : s[i] = c /\ \A j \in 1..(i - 1) : s[j] # c
    ELSE 0

\* s.split(sep)
RECURSIVE Split(_, _)
Split(s, sep) ==
    IF IndexOf(s, sep) = 0 THEN <<s>>
    ELSE <<SubSeq(s, 1, IndexOf(s, sep) - 1)>>
            \o Split(SubSeq(s, IndexOf(s, sep) + 1, Len(s)), sep)

\* An optional text: None, or the text.
Some(text) == [some |-> text]

\* [n.strip() for n in value.split(',') if n.strip()]
RECURSIVE StripNonEmpty(_)
StripNonEmpty(pieces) ==
    IF pieces = <<>> THEN <<>>
    ELSE IF Strip(Head(pieces)) # <<>>
         THEN <<Strip(Head(pieces))>> \o StripNonEmpty(Tail(pieces))
         ELSE StripNonEmpty(Tail(pieces))

NamesOf(value) == StripNonEmpty(Split(value, ","))

\* ParseLine that takes whatever follows CATEGORY as the category.
ParseLineKeepsUnknown(line, result) ==
    IF IndexOf(line, ":") = 0 THEN result
    ELSE LET key == Upper(Strip(SubSeq(line, 1, IndexOf(line, ":") - 1)))
             value == Strip(SubSeq(line, IndexOf(line, ":") + 1, Len(line)))
         IN  IF key = <<"CATEGORY">> /\ value # <<>>
             THEN [result EXCEPT !.category = value[1]]
             ELSE IF key = <<"COLLEGE_NAMES">> /\ value # <<"NONE">>
             THEN [result EXCEPT !.college_names = NamesOf(value)]
             ELSE IF key = <<"EXAM_NAMES">> /\ value # <<"NONE">>
             THEN [result EXCEPT !.exam_names = NamesOf(value)]
             ELSE IF key = <<"LOCATION">> /\ value # <<"NONE">>
             THEN [result EXCEPT !.location = Some(value)]
             ELSE IF key = <<"RANK_SCORE">> /\ value # <<"NONE">>
             THEN [result EXCEPT !.rank_score = Some(value)]
             ELSE result

\* The body of parse_router_response's loop for one line.
ParseLine(line, result) ==
    IF IndexOf(line, ":") = 0 THEN result
    ELSE LET key == Upper(Strip(SubSeq(line, 1, IndexOf(line, ":") - 1)))
             value == Strip(SubSeq(line, IndexOf(line, ":") + 1, Len(line)))
         IN  IF key = <<"CATEGORY">> /\ value \in {<<c>> : c \in CATEGORIES}
             THEN [result EXCEPT !.category = value[1]]
             ELSE IF key = <<"COLLEGE_NAMES">> /\ value # <<"NONE">>
             THEN [result EXCEPT !.college_names = NamesOf(value)]
             ELSE IF key = <<"EXAM_NAMES">> /\ value # <<"NONE">>
             THEN [result EXCEPT !.exam_names = NamesOf(value)]
             ELSE IF key = <<"LOCATION">> /\ value # <<"NONE">>
             THEN [result EXCEPT !.location = Some(value)]
             ELSE IF key = <<"RANK_SCORE">> /\ value # <<"NONE">>
             THEN [result EXCEPT !.rank_score = Some(value)]
             ELSE result

RECURSIVE ParseLines(_, _)
ParseLines(lines, result) ==
    IF lines = <<>> THEN result
    ELSE ParseLines(Tail(lines), ParseLine(Head(lines), result))

\* The dict with which parse_router_response starts, and which route_query
\* returns, with the category set, when the classification failed.
DefaultRoute(category) ==
    [category |-> category, college_names |-> <<>>, exam_names |-> <<>>,
     location |-> NoName, rank_score |-> NoName]

\* parse_router_response(response)
ParseRouterResponse(response) ==
    ParseLines(Split(Strip(response), "\n"), DefaultRoute("GENERAL"))

\* A reply of the classifier in the format the prompt asks for.
RouterReply(category, college_names, exam_names, location, rank_score) ==
    <<"CATEGORY", ":", " ">> \o category \o <<"\n">>
        \o <<"COLLEGE_NAMES", ":", " ">> \o college_names \o <<"\n">>
        \o <<"EXAM_NAMES", ":", " ">> \o exam_names \o <<"\n">>
        \o <<"LOCATION", ":", " ">> \o location \o <<"\n">>
        \o <<"RANK_SCORE", ":", " ">> \o rank_score

\* What the classification call answers: it raises (ok = FALSE), its message
\* has no content (none = TRUE), or the content is a text.
RouterReplies ==
    {[ok |-> FALSE, none |-> FALSE, text |-> <<>>],
     [ok |-> TRUE, none |-> TRUE, text |-> <<>>]} \cup
    {[ok |-> TRUE, none |-> FALSE, text |-> x] : x \in
        {RouterReply(<<c>>, <<"NONE">>, <<"NONE">>, <<"NONE">>, <<"NONE">>) :
            c \in CATEGORIES} \cup
        { RouterReply(<<"COLLEGE">>, <<"VIT", ",", " ", ",", "SRM", " ">>, <<"NONE">>,
                      <<"Pune">>, <<"NONE">>),
          RouterReply(<<"PREDICTOR">>, <<"NONE">>, <<"JEE">>, <<"NONE">>, <<"9">>),
          RouterReply(<<"college">>, <<>>, <<>>, <<>>, <<>>),
          <<" ", "category", " ", ":", "EXAM", " ", "\n", "\n", "sure", "\n",
            "EXAM_NAMES", ":", "GATE", ":", "2026">>,
          <<"I", " ", "think", " ", "EXAM">>,
          <<>> }}

\* The try block of route_query: the classification call, the parse, the
\* override by the fast category.
RouteQueryTry(fast_category, reply) ==
    IF ~reply.ok THEN Raised("APIError")
    ELSE IF reply.none THEN Raised("AttributeError")
    ELSE LET result == ParseRouterResponse(reply.text)
         IN  IF fast_category # NoCategory
             THEN Returned([result EXCEPT !.category = fast_category])
             ELSE Returned(result)

\* RouteQuery whose successful classification is not overridden.
RouteQueryClassifierWins(q, reply) ==
    LET fast_category == FastRoute(q)
        attempt == RouteQueryTry(NoCategory, reply)
    IN  IF attempt.kind = "raised"
        THEN Returned(DefaultRoute(IF fast_category # NoCategory
                                   THEN fast_category ELSE "GENERAL"))
        ELSE attempt

\* RouteQuery whose fallback is GENERAL whatever the fast router found.
RouteQueryFallsBackToGeneral(q, reply) ==
    LET fast_category == FastRoute(q)
        attempt == RouteQueryTry(fast_category, reply)
    IN  IF attempt.kind = "raised"
        THEN Returned(DefaultRoute("GENERAL"))
        ELSE attempt

\* route_query(query) with the classification call answering reply.
RouteQuery(q, reply) ==
    LET fast_category == FastRoute(q)
        attempt == RouteQueryTry(fast_category, reply)
    IN  IF attempt.kind = "raised"
        THEN Returned(DefaultRoute(IF fast_category # NoCategory
                                   THEN fast_category ELSE "GENERAL"))
        ELSE attempt

RouterQueries ==
    {
      <<"a", " ", "v", "s", " ", "b">>,
      <<"A", " ", "V", "S", ".", " ", "B">>,
      <<"x", " ", "v", "e", "r", "s", "u", "s", " ", "y">>,
      <<"C", "o", "m", "p", "a", "r", "e", " ", "a", " ", "b">>,
      <<"c", "o", "m", "p", "a", "r", "e", "d", " ", "a", " ", "b">>,
      <<"t", "v", "s", " ", "f", "e", "e", " ", "a", "t", " ", "x">>,
      <<"c", "o", "m", "p", "a", "r", "e", " ", "e", "x", "a", "m", " ", "d", "a", "t", "e">>,
      <<"x", " ", "e", "x", "a", "m", " ", "d", "a", "t", "e">>,
      <<"F", "e", "e", " ", "a", "t", " ", "x">>,
      <<"t", "o", "p", " ", "c", "o", "l", "l", "e", "g", "e", "s">>,
      <<"t", "o", "p", " ", "c", "o", "l", "l", "e", "g", "e", "s", " ", "9", " ", "r", "a", "n", "k">>,
      <<"x", " ", "r", "a", "n", "k", " ", "9">>,
      <<"c", "a", "n", " ", "i", " ", "g", "e", "t", " ", "x">>,
      <<"w", "h", "i", "c", "h", " ", "c", "o", "l", "l", "e", "g", "e", "s", " ", "9">>,
      <<"h", "i">>,
      <<"b", "e", "s", "t", " ", "c", "o", "l", "l", "e", "g", "e", " ", "v", "s", " ", "x">>,
      <<"a", " ", "c", "o", "m", "p", "a", "r", "i", "s", "o", "n">>,
      <<"S", "y", "l", "l", "a", "b", "u", "s", " ", "a", "t", " ", "9", " ", "p", "e", "r", "c", "e", "n", "t", "i", "l", "e">>,
      <<"t", "o", "p", " ", "c", "o", "l", "l", "e", "g", "e", "s", " ", "r", "a", "n", "k", " ", "9">>,
      <<"H", "o", "w", " ", "c", "a", "n", " ", "I", " ", "g", "e", "t", " ", "a", "d", "m", "i", "s", "s", "i", "o", "n", " ", "t", "o", " ", "V", "I", "T", " ", "V", "e", "l", "l", "o", "r", "e", "?">> }

\* route_query(q) is called.
RouteQueryCall(q, reply) ==
    /\ probe' = [fn |-> "route_query", query |-> q, reply |-> reply,
                 out |-> RouteQuery(q, reply)]
    /\ UNCHANGED <<query_cache, cache_keys, pc, query, web_search_enabled, stream,
                   route_result, raw_docs, trace, outcome, prev, stored, threads, lazy, sse>>

NextRouter == \E q \in RouterQueries, reply \in RouterReplies : RouteQueryCall(q, reply)

SpecRouter == Init /\ [][NextRouter]_vars

(***************************************************************************)
(* The verifier's two functions (src/src/self_rag.py) applied directly.    *)
(* In both, the completion call and the read of its content are inside a  *)
(* try block whose except branch returns the default: an answer with       *)
(* ok = FALSE stands for every exception raised there.                     *)
(***************************************************************************)
\* Document lists handed to check_relevance: none, one, two documents.
VerifierDocs ==
    {GetRawDocs(<<"a">>, "GENERAL", <<>>, <<>>, h) :
        h \in UNION {[1..n -> {TRUE}] : n \in 0..MaxDocs}}

\* Completion calls check_relevance(query, docs) makes: it returns before
\* the call when docs is empty (self_rag.py:36-37), and calls once otherwise.
CheckRelevanceCalls(docs) == IF docs = <<>> THEN 0 ELSE 1

\* Answers to the rephrase prompt: those of RephraseReplies, and answers
\* that are nothing but blanks and quotes.
VerifierRephraseReplies(q) ==
    RephraseReplies(q) \cup
    {[ok |-> TRUE, text |-> t] :
        t \in {<<" ", "dq", "dq", " ">>, <<"sq", "dq", "sq">>, <<"dq", " ", "dq">>,
               <<" ", "sq">> \o q \o <<" ", "sq", "\n">>}}

\* check_relevance(q, docs) is called.
CheckRelevanceCall(q, docs, reply) ==
    /\ probe' = [fn |-> "check_relevance", query |-> q, docs |-> docs, reply |-> reply,
                 out |-> Returned(CheckRelevance(docs, reply)),
                 calls |-> CheckRelevanceCalls(docs)]
    /\ UNCHANGED <<query_cache, cache_keys, pc, query, web_search_enabled, stream,
                   route_result, raw_docs, trace, outcome, prev, stored, threads, lazy, sse>>

\* rephrase_query(q, category) is called.
RephraseQueryCall(q, category, reply) ==
    /\ probe' = [fn |-> "rephrase_query", query |-> q, category |-> category,
                 reply |-> reply, out |-> Returned(RephraseQuery(q, reply)), calls |-> 1]
    /\ UNCHANGED <<query_cache, cache_keys, pc, query, web_search_enabled, stream,
                   route_result, raw_docs, trace, outcome, prev, stored, threads, lazy, sse>>

NextVerifier ==
    \/ \E q \in Queries, docs \in VerifierDocs, reply \in VerdictReplies :
          CheckRelevanceCall(q, docs, reply)
    \/ \E q \in Queries, category \in CATEGORIES :
          \E reply \in VerifierRephraseReplies(q) : RephraseQueryCall(q, category, reply)

SpecVerifier == Init /\ [][NextVerifier]_vars

(***************************************************************************)
(* The lazy getters, statement by statement, in overlapping request        *)
(* threads: get_embedding_function, get_chroma_client,                     *)
(* get_or_create_collection (src/src/vector_store.py) and _get_client      *)
(* (src/src/self_rag.py).  Each is                                         *)
(*     global g; if g is None: g = Constructor(...); return g              *)
(* with no lock.  A handle is [of, serial]: the serial-th object its       *)
(* constructor made.                                                       *)
(***************************************************************************)
\* What the getters leave alone.
others == <<query_cache, cache_keys, stored, threads, pc, query, web_search_enabled,
            stream, route_result, raw_docs, trace, outcome, prev, probe, sse>>

\* A getter call at its first statement.
Frame(g) == [g |-> g, at |-> "check", local |-> None]

Top(t) == frames[t][Len(frames[t])]
SetTop(t, frame) == [frames EXCEPT ![t] = [@ EXCEPT ![Len(@)] = frame]]

\* Thread t calls the getter of g.
GetterCall(t, g) ==
    /\ frames[t] = <<>>
    /\ frames' = [frames EXCEPT ![t] = <<Frame(g)>>]
    /\ UNCHANGED <<globals, constructed, observed, others>>

\* if g is None:
GetterCheck(t) ==
    /\ frames[t] # <<>>
    /\ Top(t).at = "check"
    /\ frames' = SetTop(t, [Top(t) EXCEPT !.at =
                     IF globals[Top(t).g] # None THEN "return"
                     ELSE IF Top(t).g = "_collection" THEN "client"
                     ELSE "build"])
    /\ UNCHANGED <<globals, constructed, observed, others>>

\* get_or_create_collection: client = get_chroma_client() and
\* embedding_fn = get_embedding_function(), each a call of its own.
GetterNested(t) ==
    /\ frames[t] # <<>>
    /\ Top(t).at \in {"client", "embedding"}
    /\ frames' = [frames EXCEPT ![t] =
                     Append(@, Frame(IF Top(t).at = "client" THEN "_chroma_client"
                                     ELSE "_embedding_fn"))]
    /\ UNCHANGED <<globals, constructed, observed, others>>

\* The right-hand side of g = Constructor(...): a new object is made.
GetterBuild(t) ==
    /\ frames[t] # <<>>
    /\ Top(t).at = "build"
    /\ LET g == Top(t).g
       IN  /\ constructed' = [constructed EXCEPT ![g] = @ + 1]
           /\ frames' = SetTop(t, [Top(t) EXCEPT !.at = "store",
                                      !.local = [of |-> g, serial |-> constructed[g] + 1]])
    /\ UNCHANGED <<globals, observed, others>>

\* The assignment of g = Constructor(...).
GetterStore(t) ==
    /\ frames[t] # <<>>
    /\ Top(t).at = "store"
    /\ globals' = [globals EXCEPT ![Top(t).g] = Top(t).local]
    /\ frames' = SetTop(t, [Top(t) EXCEPT !.at = "return"])
    /\ UNCHANGED <<constructed, observed, others>>

\* return g: the caller receives what the global holds now; a getter called
\* from get_or_create_collection hands it to that call, which goes on.
GetterReturn(t) ==
    /\ frames[t] # <<>>
    /\ Top(t).at = "return"
    /\ observed' = [observed EXCEPT ![Top(t).g] = @ \cup {globals[Top(t).g]}]
    /\ LET rest == SubSeq(frames[t], 1, Len(frames[t]) - 1)
       IN  frames' = [frames EXCEPT ![t] =
               IF rest = <<>> THEN rest
               ELSE [rest EXCEPT ![Len(rest)].at =
                        IF @ = "client" THEN "embedding" ELSE "build"]]
    /\ UNCHANGED <<globals, constructed, others>>

NextLazy ==
    \E t \in Threads :
        \/ \E g \in Singletons : GetterCall(t, g)
        \/ GetterCheck(t)
        \/ GetterNested(t)
        \/ GetterBuild(t)
        \/ GetterStore(t)
        \/ GetterReturn(t)

SpecLazy == Init /\ [][NextLazy]_vars


(***************************************************************************)
(* should_use_web_search (src/src/web_search.py) applied directly.        *)
(* Distances and thresholds are in tenths: 5 stands for 0.5.               *)
(***************************************************************************)
\* result.get('distance', 1.0): the distance of a result without the key.
DEFAULT_DISTANCE == 10

\* Search results as should_use_web_search reads them: the distance key
\* holds a number, holds None, or is missing.
WebResults ==
    {[has |-> "value", distance |-> d] : d \in {2, 5, 8, 12}}
        \cup {[has |-> "none"], [has |-> "missing"]}

\* The confidence_threshold argument; 5 is the default.
Thresholds == {2, 5, 8, 10, 15}

\* result.get('distance', 1.0), None kept as the record itself.
GetDistance(result) ==
    IF result.has = "missing" THEN [has |-> "value", distance |-> DEFAULT_DISTANCE]
    ELSE result

RECURSIVE ShouldUseWebSearchLoop(_, _)
\* The for loop of should_use_web_search: False at the first result whose
\* distance is not None and below the threshold, True when none is.
ShouldUseWebSearchLoop(results, confidence_threshold) ==
    IF results = <<>> THEN TRUE
    ELSE LET distance == GetDistance(Head(results))
         IN  IF distance.has = "value" /\ distance.distance < confidence_threshold
             THEN FALSE
             ELSE ShouldUseWebSearchLoop(Tail(results), confidence_threshold)

\* should_use_web_search(results, confidence_threshold).
ShouldUseWebSearch(results, confidence_threshold) ==
    IF results = <<>> THEN TRUE
    ELSE ShouldUseWebSearchLoop(results, confidence_threshold)

\* should_use_web_search(results, confidence_threshold) is called.
ShouldUseWebSearchCall(results, confidence_threshold) ==
    /\ probe' = [fn |-> "should_use_web_search", results |-> results,
                 confidence_threshold |-> confidence_threshold,
                 out |-> ShouldUseWebSearch(results, confidence_threshold)]
    /\ UNCHANGED <<query_cache, cache_keys, pc, query, web_search_enabled, stream,
                   route_result, raw_docs, trace, outcome, prev, stored, threads, lazy, sse>>

NextHeuristic ==
    \E results \in UNION {[1..n -> WebResults] : n \in 0..MaxDocs}, t \in Thresholds :
        ShouldUseWebSearchCall(results, t)

SpecHeuristic == Init /\ [][NextHeuristic]_vars

(***************************************************************************)
(* _get_raw_docs (src/src/rag_chain.py) applied directly to what the       *)
(* search returned, each document with its content and its source URL.     *)
(***************************************************************************)
VIT_TEXT == <<"V", "I", "T">>
SRM_TEXT == <<"s", "r", "m">>

\* Documents of the store: one naming VIT in its content, one naming it in
\* lower case in its URL only, one naming no college.
StoreDocs ==
    {[content |-> <<"a", " ">> \o VIT_TEXT, url |-> <<"u", "/", "1">>],
     [content |-> <<"x">>, url |-> <<"u", "/">> \o Lower(VIT_TEXT)],
     [content |-> <<"x">>, url |-> <<"u", "/", "4">>]}

RetrievalNames == {<<>>, <<VIT_TEXT>>, <<SRM_TEXT, Lower(VIT_TEXT)>>, <<<<"b">>>>}

\* any(cn in content.lower() or cn in url.lower() for cn in college_names_lower)
Mentions(d, college_names) ==
    \E k \in 1..Len(college_names) :
        LET cn == Lower(college_names[k])
        IN  Contains(Lower(d.content), cn) \/ Contains(Lower(d.url), cn)

\* _get_raw_docs(q, category, college_names, <<>>, ...) is called, and the
\* search returns `found`.
GetRawDocsCall(q, category, college_names, found) ==
    /\ probe' = [fn |-> "_get_raw_docs", query |-> q, category |-> category,
                 college_names |-> college_names, found |-> found,
                 out |-> GetRawDocs(q, category, college_names, <<>>,
                                    [i \in 1..Len(found) |-> Mentions(found[i], college_names)])]
    /\ UNCHANGED <<query_cache, cache_keys, pc, query, web_search_enabled, stream,
                   route_result, raw_docs, trace, outcome, prev, stored, threads, lazy, sse>>

NextRetrieval ==
    \E category \in CATEGORIES, college_names \in RetrievalNames,
       found \in UNION {[1..n -> StoreDocs] : n \in 0..MaxDocs} :
        GetRawDocsCall(<<"a">>, category, college_names, found)

SpecRetrieval == Init /\ [][NextRetrieval]_vars


(***************************************************************************)
(* The five category context builders (src/src/handlers) applied directly, *)
(* over a world that fixes what the structured store and the semantic      *)
(* search hold.  A search is keyed by its document type: no builder        *)
(* searches one type twice.  A location filter matches every ranked        *)
(* college or none.                                                        *)
(***************************************************************************)
\* The colleges table as the predictor and top-colleges queries read it:
\* rows in storage order, nirf_rank NULL where ranked is FALSE.
SampleRanks ==
    <<8, 15, 22, 6, 13, 20, 4, 11, 18, 2, 9, 16, 23, 7, 14, 21, 5, 12, 19, 3, 10, 17,
      150, 200, 201>>
SampleTable ==
    [i \in 1..Len(SampleRanks) |-> [id |-> i, ranked |-> TRUE, nirf_rank |-> SampleRanks[i]]]
        \o <<[id |-> Len(SampleRanks) + 1, ranked |-> FALSE, nirf_rank |-> 0]>>
Tables == {<<>>, SampleTable}

HandlerDocTypes == {"college", "comparison", "exam", "blog"}

\* The comparisons table: no row, or one row whose columns college_1 and
\* college_2 hold the pair in one order or the other.
StoredPairs == {{}, {<<"VIT", "SRM">>}, {<<"SRM", "VIT">>}}
Worlds ==
    [colleges : SUBSET {"VIT", "SRM"}, exams : SUBSET {"JEE"},
     comparison : StoredPairs,
     table : Tables, located : BOOLEAN, hits : [HandlerDocTypes -> BOOLEAN]]

\* Arguments the router hands to the builders.
HandlerCollegeNames ==
    {<<>>, <<"VIT">>, <<"VIT", "SRM">>, <<"SRM", "VIT">>, <<"VIT", "SRM", "BITS">>}
HandlerExamNames == {<<>>, <<"JEE">>}
HandlerLocations == {NoName, Some(<<"P", "u", "n", "e">>)}
RankScores ==
    {NoName, Some(<<>>), Some(<<"0">>), Some(<<"7">>), Some(<<"0", "0", "7">>),
     Some(<<"5", "0">>), Some(<<"9", "9">>), Some(<<"1", "0", "0">>),
     Some(<<"1", "5", "0">>), Some(<<"r", "a", "n", "k", " ", "1", "2", "0">>),
     Some(<<"4", "5", " ", "o", "r", " ", "9", "0">>), Some(<<"a", "b", "c">>)}

\* One call of a lookup and whether it returned anything.
Lookup(call, found) == [call |-> call, found |-> found]
LookupOf(call, arg, found) == [call |-> call, arg |-> arg, found |-> found]

\* db_setup.query_college(name), query_exam(name), query_comparison(a, b).
QueryCollege(world, name) == IF name \in world.colleges THEN [name |-> name] ELSE None
QueryExam(world, name) == IF name \in world.exams THEN [name |-> name] ELSE None
QueryComparison(world, college1, college2) ==
    LET rows == {p \in world.comparison :
                    \/ p[1] = college1 /\ p[2] = college2
                    \/ p[1] = college2 /\ p[2] = college1}
    IN  IF rows # {}
        THEN LET row == CHOOSE p \in rows : TRUE
             IN  [college_1 |-> row[1], college_2 |-> row[2]]
        ELSE None

\* search_by_type(query, doc_type, n) and search_comparisons(a, b, n).
SearchByType(world, doc_type) ==
    IF world.hits[doc_type] THEN <<[type |-> doc_type]>> ELSE <<>>

RECURSIVE OrderByRank(_)
\* ORDER BY nirf_rank ASC over a set of rows.
OrderByRank(rows) ==
    IF rows = {} THEN <<>>
    ELSE LET least == CHOOSE r \in rows : \A o \in rows : r.nirf_rank <= o.nirf_rank
         IN  <<least>> \o OrderByRank(rows \ {least})

\* LIMIT n.
Limit(rows, n) == SubSeq(rows, 1, IF Len(rows) < n THEN Len(rows) ELSE n)

\* PredictorHandler.get_colleges_by_nirf(max_rank, limit).
GetCollegesByNirf(table, max_rank, limit) ==
    Limit(OrderByRank({table[i] : i \in {j \in 1..Len(table) :
                          table[j].ranked /\ table[j].nirf_rank <= max_rank}}), limit)

\* db_setup.query_top_colleges(limit, location).
QueryTopColleges(world, limit, location) ==
    IF location # NoName /\ location.some # <<>> /\ ~world.located THEN <<>>
    ELSE Limit(OrderByRank({world.table[i] : i \in {j \in 1..Len(world.table) :
                               world.table[j].ranked}}), limit)

\* A parsed rank: None, or the integer.
SomeInt(n) == [value |-> n]
DigitValue(c) == (CHOOSE i \in 1..10 : DigitChars[i] = c) - 1

RECURSIVE ToInt(_)
\* int(digits)
ToInt(digits) ==
    IF digits = <<>> THEN 0
    ELSE 10 * ToInt(SubSeq(digits, 1, Len(digits) - 1)) + DigitValue(digits[Len(digits)])

RECURSIVE LeadingDigits(_)
LeadingDigits(text) ==
    IF text = <<>> \/ ~IsDigitAt(text, 1) THEN <<>>
    ELSE <<Head(text)>> \o LeadingDigits(Tail(text))

RECURSIVE FirstNumber(_)
\* re.findall(r'\d+', text)[0], or <<>> when there is none.
FirstNumber(text) ==
    IF text = <<>> THEN <<>>
    ELSE IF IsDigitAt(text, 1) THEN LeadingDigits(text)
    ELSE FirstNumber(Tail(text))

\* PredictorHandler.parse_rank_score(rank_score_str).
ParseRankScore(rank_score_str) ==
    IF rank_score_str = NoName \/ rank_score_str.some = <<>> THEN None
    ELSE LET number == FirstNumber(rank_score_str.some)
         IN  IF number # <<>> THEN SomeInt(ToInt(number)) ELSE None

\* min(rank * 2, 200) if rank < 100 else 200
MaxNirf(rank) ==
    IF rank < 100 THEN (IF rank * 2 < 200 THEN rank * 2 ELSE 200) ELSE 200

\* CollegeHandler.get_context(query, college_names, location).
CollegeGetContext(world, college_names, location) ==
    LET named == SelectSeq(college_names, LAMBDA n : QueryCollege(world, n) # None)
        by_location == named = <<>> /\ location # NoName /\ location.some # <<>>
        sql_results == IF by_location THEN QueryTopColleges(world, 5, location)
                       ELSE [i \in 1..Len(named) |-> QueryCollege(world, named[i])]
        vector_results ==
            SearchByType(world, "college")
                \o (IF college_names # <<>> THEN SearchByType(world, "comparison") ELSE <<>>)
    IN  [sql_data |-> sql_results, vector_data |-> vector_results,
         has_results |-> sql_results # <<>> \/ vector_results # <<>>,
         calls |-> [i \in 1..Len(college_names) |->
                        LookupOf("query_college", college_names[i],
                                 QueryCollege(world, college_names[i]) # None)]
                   \o (IF by_location
                       THEN <<Lookup("query_top_colleges", sql_results # <<>>)>> ELSE <<>>)
                   \o <<Lookup("search_by_type", world.hits["college"])>>
                   \o (IF college_names # <<>>
                       THEN <<Lookup("search_by_type", world.hits["comparison"])>> ELSE <<>>)]

\* ExamHandler.get_context(query, exam_names).
ExamGetContext(world, exam_names) ==
    LET named == SelectSeq(exam_names, LAMBDA n : QueryExam(world, n) # None)
        sql_results == [i \in 1..Len(named) |-> QueryExam(world, named[i])]
        vector_results == SearchByType(world, "exam") \o SearchByType(world, "blog")
    IN  [sql_data |-> sql_results, vector_data |-> vector_results,
         has_results |-> sql_results # <<>> \/ vector_results # <<>>,
         calls |-> [i \in 1..Len(exam_names) |->
                        Lookup("query_exam", QueryExam(world, exam_names[i]) # None)]
                   \o <<Lookup("search_by_type", world.hits["exam"]),
                        Lookup("search_by_type", world.hits["blog"])>>]

\* ComparisonHandler.get_context(query, college_names).
ComparisonGetContext(world, college_names) ==
    LET n == Len(college_names)
        college(i) == QueryCollege(world, college_names[i])
        sql_result == IF n >= 2 THEN QueryComparison(world, college_names[1], college_names[2])
                      ELSE None
        vector_results == SearchByType(world, "comparison")
    IN  [sql_data |-> sql_result,
         college1_data |-> IF n >= 1 THEN college(1) ELSE None,
         college2_data |-> IF n >= 2 THEN college(2) ELSE None,
         vector_data |-> vector_results,
         has_results |-> sql_result # None \/ vector_results # <<>>,
         calls |-> (IF n >= 2
                    THEN <<LookupOf("query_comparison", <<college_names[1], college_names[2]>>,
                                    sql_result # None),
                           LookupOf("query_college", college_names[1], college(1) # None),
                           LookupOf("query_college", college_names[2], college(2) # None),
                           Lookup("search_comparisons", world.hits["comparison"])>>
                    ELSE <<Lookup("search_by_type", world.hits["comparison"])>>)
                   \o (IF n >= 1
                       THEN <<LookupOf("query_college", college_names[1], college(1) # None)>>
                       ELSE <<>>)
                   \o (IF n >= 2
                       THEN <<LookupOf("query_college", college_names[2], college(2) # None)>>
                       ELSE <<>>)]

\* PredictorHandler.get_context(query, exam_names, rank_score).
PredictorGetContext(world, exam_names, rank_score) ==
    LET rank == ParseRankScore(rank_score)
        queried == rank # None /\ rank.value # 0
        max_nirf == MaxNirf(rank.value)
        sql_results == IF queried THEN GetCollegesByNirf(world.table, max_nirf, 15) ELSE <<>>
        vector_results == SearchByType(world, "college") \o SearchByType(world, "blog")
    IN  [sql_data |-> sql_results, vector_data |-> vector_results, rank |-> rank,
         has_results |-> sql_results # <<>> \/ vector_results # <<>>,
         calls |-> (IF queried
                    THEN <<[call |-> "get_colleges_by_nirf", found |-> sql_results # <<>>,
                            max_rank |-> max_nirf, limit |-> 15]>>
                    ELSE <<>>)
                   \o <<Lookup("search_by_type", world.hits["college"]),
                        Lookup("search_by_type", world.hits["blog"])>>]

\* TopCollegesHandler.get_context(query, location).
TopCollegesGetContext(world, location) ==
    LET sql_results == QueryTopColleges(world, 10, location)
        vector_results == SearchByType(world, "college") \o SearchByType(world, "blog")
    IN  [sql_data |-> sql_results, vector_data |-> vector_results,
         has_results |-> sql_results # <<>> \/ vector_results # <<>>,
         calls |-> <<Lookup("query_top_colleges", sql_results # <<>>),
                     Lookup("search_by_type", world.hits["college"]),
                     Lookup("search_by_type", world.hits["blog"])>>]

\* The sections of the context text, by their headers, in order; a section
\* of one college in a comparison is headed by the college's name.
Section(present, header) == IF present THEN <<header>> ELSE <<>>

\* The tuple build_prompt_context returns, with the lookups it made.
Built(context_parts, data) ==
    [full_context |-> context_parts, has_results |-> data.has_results,
     needs_web |-> ~data.has_results, calls |-> data.calls, sql_data |-> data.sql_data]

\* build_prompt_context of the five handlers.
CollegeBuildPromptContext(world, college_names, location) ==
    LET data == CollegeGetContext(world, college_names, location)
    IN  Built(Section(data.sql_data # <<>>, "=== Structured College Data ===")
                  \o Section(data.vector_data # <<>>, "=== Detailed Information ==="), data)

ExamBuildPromptContext(world, exam_names) ==
    LET data == ExamGetContext(world, exam_names)
    IN  Built(Section(data.sql_data # <<>>, "=== Exam Schedule Data ===")
                  \o Section(data.vector_data # <<>>, "=== Detailed Exam Information ==="), data)

ComparisonBuildPromptContext(world, college_names) ==
    LET data == ComparisonGetContext(world, college_names)
    IN  Built(Section(data.sql_data # None, "=== Structured Comparison Data ===")
                  \o Section(data.college1_data # None, "=== college 1 ===")
                  \o Section(data.college2_data # None, "=== college 2 ===")
                  \o Section(data.vector_data # <<>>, "=== Detailed Comparison Content ==="),
              data)

PredictorBuildPromptContext(world, exam_names, rank_score) ==
    LET data == PredictorGetContext(world, exam_names, rank_score)
    IN  Built(Section(data.sql_data # <<>>, "=== College Predictor Results ===")
                  \o Section(data.vector_data # <<>>, "=== Related Information ==="), data)

TopCollegesBuildPromptContext(world, location) ==
    LET data == TopCollegesGetContext(world, location)
    IN  Built(Section(data.sql_data # <<>>, "=== Top Colleges Ranking ===")
                  \o Section(data.vector_data # <<>>, "=== Detailed Information ==="), data)

\* The worlds that differ only in what a builder reads: the store's tables
\* `fields` and the searches of the document types `types`.
WorldsOf(fields, types) ==
    [colleges : IF "colleges" \in fields THEN SUBSET {"VIT", "SRM"} ELSE {{}},
     exams : IF "exams" \in fields THEN SUBSET {"JEE"} ELSE {{}},
     comparison : IF "comparison" \in fields THEN StoredPairs ELSE {{}},
     table : IF "table" \in fields THEN Tables ELSE {<<>>},
     located : IF "located" \in fields THEN BOOLEAN ELSE {FALSE},
     hits : {h \in [HandlerDocTypes -> BOOLEAN] : \A t \in HandlerDocTypes \ types : ~h[t]}]

\* A builder was called: its arguments and what it returned.
Probed(world, category, args, built) ==
    [fn |-> "build_prompt_context", category |-> category, args |-> args,
     world |-> world, out |-> built]

CollegeBuild(world, college_names, location) ==
    /\ probe' = Probed(world, "COLLEGE", [college_names |-> college_names, location |-> location],
                       CollegeBuildPromptContext(world, college_names, location))
    /\ UNCHANGED <<query_cache, cache_keys, pc, query, web_search_enabled, stream,
                   route_result, raw_docs, trace, outcome, prev, stored, threads, lazy, sse>>

ExamBuild(world, exam_names) ==
    /\ probe' = Probed(world, "EXAM", [exam_names |-> exam_names],
                       ExamBuildPromptContext(world, exam_names))
    /\ UNCHANGED <<query_cache, cache_keys, pc, query, web_search_enabled, stream,
                   route_result, raw_docs, trace, outcome, prev, stored, threads, lazy, sse>>

ComparisonBuild(world, college_names) ==
    /\ probe' = Probed(world, "COMPARISON", [college_names |-> college_names],
                       ComparisonBuildPromptContext(world, college_names))
    /\ UNCHANGED <<query_cache, cache_keys, pc, query, web_search_enabled, stream,
                   route_result, raw_docs, trace, outcome, prev, stored, threads, lazy, sse>>

PredictorBuild(world, exam_names, rank_score) ==
    /\ probe' = Probed(world, "PREDICTOR", [exam_names |-> exam_names, rank_score |-> rank_score],
                       PredictorBuildPromptContext(world, exam_names, rank_score))
    /\ UNCHANGED <<query_cache, cache_keys, pc, query, web_search_enabled, stream,
                   route_result, raw_docs, trace, outcome, prev, stored, threads, lazy, sse>>

TopCollegesBuild(world, location) ==
    /\ probe' = Probed(world, "TOP_COLLEGES", [location |-> location],
                       TopCollegesBuildPromptContext(world, location))
    /\ UNCHANGED <<query_cache, cache_keys, pc, query, web_search_enabled, stream,
                   route_result, raw_docs, trace, outcome, prev, stored, threads, lazy, sse>>

NextHandlers ==
    \/ \E world \in WorldsOf({"colleges", "table", "located"}, {"college", "comparison"}),
          c \in HandlerCollegeNames, l \in HandlerLocations : CollegeBuild(world, c, l)
    \/ \E world \in WorldsOf({"exams"}, {"exam", "blog"}), e \in HandlerExamNames :
          ExamBuild(world, e)
    \/ \E world \in WorldsOf({"colleges", "comparison"}, {"comparison"}),
          c \in HandlerCollegeNames : ComparisonBuild(world, c)
    \/ \E world \in WorldsOf({"table"}, {"college", "blog"}),
          e \in HandlerExamNames, r \in RankScores : PredictorBuild(world, e, r)
    \/ \E world \in WorldsOf({"table", "located"}, {"college", "blog"}), l \in HandlerLocations :
          TopCollegesBuild(world, l)

SpecHandlers == Init /\ [][NextHandlers]_vars


(***************************************************************************)
(* The answers the services would give to the calls a run has not made.    *)
(* A run that ended before consulting a service is the run of every such   *)
(* answer, so a statement about "every run whose attempt-1 verdict is ..." *)
(* ranges over the ended runs and over these answers.                      *)
(***************************************************************************)
Scenarios(q) ==
    {[reply1 |-> a, rephrase |-> r, found2 |-> f, reply2 |-> b] :
        a \in VerdictReplies, r \in RephraseReplies(q),
        f \in SearchOutcomes, b \in VerdictReplies}

\* An ended run that missed the cache, and one whose first retrieval returned.
MissRun == pc \in Ended /\ trace # <<>>
Attempt1Fetched == MissRun /\ outcome # Raised("SearchError")

Verdict1(sc) == CheckRelevance(raw_docs, sc.reply1)
Rephrased(sc) == RephraseQuery(query, sc.rephrase)
Docs2(sc) ==
    GetRawDocs(Rephrased(sc), route_result.category, route_result.college_names,
               route_result.exam_names, sc.found2.hits)
Verdict2(sc) == CheckRelevance(Docs2(sc), sc.reply2)
RetryFails(sc) ==
    Rephrased(sc) = query \/ (sc.found2.ok /\ Verdict2(sc) = Irrelevant)
RetrySucceeds(sc) ==
    Rephrased(sc) # query /\ sc.found2.ok /\ Verdict2(sc) \in {Relevant, Partial}
ToOutOfScope(sc) ==
    route_result.category = "GENERAL" /\ Verdict1(sc) = Irrelevant /\ RetryFails(sc)
SecondSearchAnswers(sc) ==
    (Verdict1(sc) = Irrelevant /\ Rephrased(sc) # query) => sc.found2.ok

TraceCalls == [i \in 1..Len(trace) |-> trace[i].call]
Count(call) == Cardinality({i \in 1..Len(trace) : trace[i].call = call})
Called(call) == Count(call) > 0
IsPrefix(s, t) == Len(s) <= Len(t) /\ s = SubSeq(t, 1, Len(s))

HasResult == outcome.kind = "result"

\* C1: a GENERAL run whose attempt-1 verdict is irrelevant and whose retry
\* fails (no-op rephrase, or attempt 2 irrelevant) returns the out-of-scope
\* redirect: out_of_scope, no web search, no auto web, the fixed text, and
\* no generation call; for either toggle and either stream mode.
C1_OutOfScopeRedirect ==
    \A sc \in Scenarios(query) :
        (Attempt1Fetched /\ ToOutOfScope(sc)) =>
            /\ HasResult
            /\ outcome.value.out_of_scope
            /\ ~outcome.value.web_search_used
            /\ ~outcome.value.auto_web_triggered
            /\ outcome.value.response = OUT_OF_SCOPE_RESPONSE
            /\ ~Called("generate")

\* C2: a run of another category than GENERAL whose attempt-1 verdict is
\* irrelevant and whose retry fails has auto_web_triggered and builds the
\* context and generates from the original query and the attempt-1
\* documents; every other run has auto_web_triggered false.
C2_AutoWebFallback ==
    \A sc \in Scenarios(query) :
        /\ (Attempt1Fetched /\ route_result.category # "GENERAL"
              /\ Verdict1(sc) = Irrelevant /\ RetryFails(sc)) =>
              /\ HasResult
              /\ outcome.value.auto_web_triggered
              /\ \E i \in 1..Len(trace) :
                    trace[i].call = "context" /\ trace[i].query = query
                       /\ trace[i].docs = raw_docs
              /\ \E i \in 1..Len(trace) :
                    trace[i].call = "generate" /\ trace[i].query = query
        /\ (MissRun /\ HasResult
              /\ ~(route_result.category # "GENERAL"
                     /\ Verdict1(sc) = Irrelevant /\ RetryFails(sc))) =>
              ~outcome.value.auto_web_triggered

\* C3: a run whose attempt-1 verdict is relevant or partial goes straight
\* to context building with the original query and the attempt-1 documents:
\* no rephrase, one retrieval, one relevance check, neither out_of_scope nor
\* auto_web_triggered.
C3_AcceptedAtFirstAttempt ==
    \A sc \in Scenarios(query) :
        (Attempt1Fetched /\ Verdict1(sc) \in {Relevant, Partial}) =>
            /\ ~Called("rephrase")
            /\ Count("retrieve") = 1
            /\ Count("verify") = 1
            /\ HasResult
            /\ ~outcome.value.out_of_scope
            /\ ~outcome.value.auto_web_triggered
            /\ \E i \in 1..Len(trace) :
                  trace[i].call = "context" /\ trace[i].query = query
                     /\ trace[i].docs = raw_docs

\* C4: a run whose attempt-1 verdict is irrelevant, whose rephrase differs
\* from the query and whose attempt-2 verdict is relevant or partial builds
\* the context from the rephrased query and the attempt-2 documents, with
\* neither out_of_scope nor auto_web_triggered.
C4_AcceptedAtSecondAttempt ==
    \A sc \in Scenarios(query) :
        (Attempt1Fetched /\ Verdict1(sc) = Irrelevant /\ RetrySucceeds(sc)) =>
            /\ HasResult
            /\ ~outcome.value.out_of_scope
            /\ ~outcome.value.auto_web_triggered
            /\ \E i \in 1..Len(trace) :
                  trace[i].call = "context" /\ trace[i].query = Rephrased(sc)
                     /\ trace[i].docs = Docs2(sc)

AllowedTraces ==
    { <<"route", "retrieve", "verify", "context", "generate">>,
      <<"route", "retrieve", "verify", "rephrase", "context", "generate">>,
      <<"route", "retrieve", "verify", "rephrase", "retrieve", "verify",
        "context", "generate">> }

\* C6: in every run the router is called at most once, retrieval and
\* relevance check at most twice and in the order retrieve, verify,
\* rephrase, retrieve, verify; rephrase_query at most once and only right
\* after an irrelevant attempt-1 verdict; generation at most once and only
\* after every verification step.
C6_LinearPipeline ==
    /\ \E full \in AllowedTraces : IsPrefix(TraceCalls, full)
    /\ \A i \in 1..Len(trace) :
          trace[i].call = "rephrase" => trace[i - 1].verdict = Irrelevant

\* C6 witness: a run has routed and retrieved once, and ended at the
\* relevance check.
C6_Witness ==
    /\ pc = "raised"
    /\ outcome = Raised("TypeError")
    /\ TraceCalls = <<"route", "retrieve">>

\* C7: every run that misses the cache returns a PipelineResult whatever the
\* classification, relevance-check and rephrase calls do; no call of the
\* orchestrator into the verifier aborts the run with an exception.  (A
\* failing search is left aside: only it may end a run with an exception.)
C7_AlwaysCompletes ==
    pc = "raised" => outcome = Raised("SearchError")

C9_CacheIdempotence ==
    (pc \in Ended /\ ~stream /\ prev # NoPrev
        /\ prev.query = query /\ prev.web_search_enabled = web_search_enabled
        /\ prev.outcome # Raised("SearchError") /\ outcome # Raised("SearchError")) =>
        /\ HasResult
        /\ outcome = prev.outcome
        /\ ~Called("generate")

\* C10: a non-streaming call whose key is in the cache makes no call to the
\* router, the search, the verifier or the generation, leaves the cache as
\* it is, and returns the stored result, category included, whatever the
\* router would answer now.
C10_CacheShortCircuit ==
    [][(pc = "idle" /\ pc' # "idle" /\ ~stream'
          /\ <<Lower(Strip(query')), web_search_enabled'>> \in DOMAIN query_cache) =>
          /\ pc' = "returned"
          /\ trace' = <<>>
          /\ outcome' = Returned(query_cache[<<Lower(Strip(query')), web_search_enabled'>>])
          /\ UNCHANGED <<query_cache, cache_keys>>]_vars

\* C10 witness: a non-streaming call has returned a stored result whose
\* category is COLLEGE.
C10_Witness ==
    /\ pc = "returned"
    /\ ~stream
    /\ trace = <<>>
    /\ HasResult
    /\ outcome.value.category = "COLLEGE"
    /\ outcome.value = query_cache[<<Lower(Strip(query)), web_search_enabled>>]

\* C11: from the empty cache, after CACHE_MAX + 1 insertions with pairwise
\* distinct keys, the first-inserted key misses (its entry is gone) and the
\* CACHE_MAX keys inserted after it are all retrievable, each with the value
\* stored under it.
C11_EvictsFirstInserted ==
    (Len(stored) = CACHE_MAX + 1 /\ Cardinality(Range(stored)) = CACHE_MAX + 1) =>
        /\ stored[1] \notin DOMAIN query_cache
        /\ GetCached(stored[1]) = None
        /\ \A i \in 2..(CACHE_MAX + 1) : GetCached(stored[i]) = EvictValue(stored[i])
        /\ Cardinality(DOMAIN query_cache) = CACHE_MAX

\* C11 witness: after CACHE_MAX + 1 insertions a non-streaming call for the
\* first-inserted pair has missed the cache and gone on to the router.
C11_Witness ==
    /\ Len(stored) = CACHE_MAX + 1
    /\ pc = "routed"
    /\ ~stream
    /\ CacheKey(query, web_search_enabled) = stored[1]
    /\ stored[CACHE_MAX + 1] \in DOMAIN query_cache

\* C12: in every state that sequential calls reach, the result cache holds
\* at most CACHE_MAX entries, and so does the list of its keys.
C12_CapacityBound ==
    /\ Cardinality(DOMAIN query_cache) <= CACHE_MAX
    /\ Len(cache_keys) <= CACHE_MAX

\* C12 witness: the cache is full after more than CACHE_MAX insertions.
C12_Witness ==
    /\ Len(stored) > CACHE_MAX + 1
    /\ Cardinality(DOMAIN query_cache) = CACHE_MAX
    /\ Len(cache_keys) = CACHE_MAX

\* The position in `stored` of the latest insertion of a key.
LastInsert(k) == CHOOSE i \in 1..Len(stored) :
                    stored[i] = k /\ \A j \in (i + 1)..Len(stored) : stored[j] # k

C14_CapacityUnderThreads ==
    \A n \in {Cardinality(DOMAIN query_cache), Len(cache_keys)} : n <= CACHE_MAX

GenerationFailed ==
    /\ probe.fn = "query_with_web_search"
    /\ \/ ~probe.gen.ok
       \/ /\ probe.request.stream
          /\ \E i \in 1..Len(probe.gen.chunks) : ~probe.gen.chunks[i].ok

\* C16: in non-streaming mode a failed generation call does not come back
\* as a normal answer: the caller gets an explicit failure, not a returned
\* value of the kind a successful call returns.
C16_GenerationFailureSurfaced ==
    (GenerationFailed /\ ~probe.request.stream) => probe.out.kind = "raised"

\* C17: in streaming mode every generation failure, at the call or while
\* chunks are pulled, reaches the consumer as exactly one error event, and
\* the stream of a failed generation has no done event.
C17_StreamFailureIsOneErrorEvent ==
    (GenerationFailed /\ probe.request.stream) =>
        /\ Cardinality({i \in 1..Len(probe.events) : probe.events[i].type = "error"}) = 1
        /\ \A i \in 1..Len(probe.events) : probe.events[i].type # "done"

\* C18: an error raised by the semantic search during raw-document
\* retrieval counts as zero results: no run ends with the search's
\* exception propagated to the caller.
C18_SearchErrorIsZeroResults ==
    (pc \in Ended /\ Called("retrieve")) => outcome # Raised("SearchError")

\* The words of a text: its maximal runs of word characters.
WordsOf(s) ==
    {SubSeq(s, ij[1], ij[2]) : ij \in
        {ij \in (1..Len(s)) \X (1..Len(s)) :
            /\ ij[1] <= ij[2]
            /\ \A k \in ij[1]..ij[2] : IsWordAt(s, k)
            /\ ~IsWordAt(s, ij[1] - 1)
            /\ ~IsWordAt(s, ij[2] + 1)}}

\* The comparison markers: vs, versus, compare.
ComparisonMarkers == {<<"v", "s">>, <<"v", "e", "r", "s", "u", "s">>, <<"c", "o", "m", "p", "a", "r", "e">>}

\* The query has a comparison marker as one of its words, in any case.
HasComparisonMarker(q) == ComparisonMarkers \cap WordsOf(Lower(q)) # {}

\* C19: for every query with a comparison marker (vs, versus, compare)
\* route_query returns category COMPARISON, whatever the classification call
\* does: another valid category, malformed text, no content, or a failure.
C19_ComparisonMarkerWins ==
    (probe.fn = "route_query" /\ HasComparisonMarker(probe.query)) =>
        /\ probe.out.kind = "result"
        /\ probe.out.value.category = "COMPARISON"

\* C19 witness: route_query returned COMPARISON for a query with a marker
\* and an exam keyword, which the classifier put in category EXAM.
C19_Witness ==
    /\ probe.fn = "route_query"
    /\ HasComparisonMarker(probe.query)
    /\ probe.reply.ok /\ ~probe.reply.none
    /\ ParseRouterResponse(probe.reply.text).category = "EXAM"
    /\ probe.out = Returned([ParseRouterResponse(probe.reply.text)
                                EXCEPT !.category = "COMPARISON"])

\* C20: route_query never raises, and when the classification call fails it
\* returns the fast router's category if there is one and GENERAL if not,
\* with no college names, no exam names, no location and no rank_score.
C20_RouterNeverRaises ==
    probe.fn = "route_query" =>
        /\ probe.out.kind = "result"
        /\ ~probe.reply.ok =>
              /\ probe.out.value.category =
                    (IF FastRoute(probe.query) \in CATEGORIES
                     THEN FastRoute(probe.query) ELSE "GENERAL")
              /\ probe.out.value.college_names = <<>>
              /\ probe.out.value.exam_names = <<>>
              /\ probe.out.value.location = NoName
              /\ probe.out.value.rank_score = NoName

\* C20 witness: the classification call failed for a query the fast router
\* takes as EXAM, and route_query returned EXAM with no entities.
C20_Witness ==
    /\ probe.fn = "route_query"
    /\ ~probe.reply.ok
    /\ FastRoute(probe.query) = "EXAM"
    /\ probe.out = Returned(DefaultRoute("EXAM"))

\* The lines of a classification response, and whether a line names one of
\* the six categories after the field name CATEGORY.
ResponseLines(text) == Split(Strip(text), "\n")
NamesCategory(line) ==
    /\ IndexOf(line, ":") # 0
    /\ Upper(Strip(SubSeq(line, 1, IndexOf(line, ":") - 1))) = <<"CATEGORY">>
    /\ Strip(SubSeq(line, IndexOf(line, ":") + 1, Len(line))) \in {<<c>> : c \in CATEGORIES}

\* C21: when the classification call succeeds, route_query returns the four
\* entity slots as parsed from the response, and as category the fast
\* router's category if it has one and the parsed category otherwise.  The
\* parsed category is one of the six; it is GENERAL when no line names a
\* known category; lines without a colon change nothing.
C21_MergePolicy ==
    (probe.fn = "route_query" /\ probe.reply.ok /\ ~probe.reply.none) =>
        LET parsed == ParseRouterResponse(probe.reply.text)
            fast == FastRoute(probe.query)
            lines == ResponseLines(probe.reply.text)
        IN  /\ probe.out.kind = "result"
            /\ probe.out.value.college_names = parsed.college_names
            /\ probe.out.value.exam_names = parsed.exam_names
            /\ probe.out.value.location = parsed.location
            /\ probe.out.value.rank_score = parsed.rank_score
            /\ probe.out.value.category =
                  (IF fast \in CATEGORIES THEN fast ELSE parsed.category)
            /\ parsed.category \in CATEGORIES
            /\ (\A i \in 1..Len(lines) : ~NamesCategory(lines[i])) =>
                  parsed.category = "GENERAL"
            /\ parsed = ParseLines(SelectSeq(lines, LAMBDA l : IndexOf(l, ":") # 0),
                                   DefaultRoute("GENERAL"))

\* C21 witness: a query the fast router takes as EXAM, classified as COLLEGE
\* with two college names and a location: the result is EXAM with those
\* names and that location.
C21_Witness ==
    /\ probe.fn = "route_query"
    /\ probe.reply.ok /\ ~probe.reply.none
    /\ FastRoute(probe.query) = "EXAM"
    /\ ParseRouterResponse(probe.reply.text).category = "COLLEGE"
    /\ probe.out.value.category = "EXAM"
    /\ probe.out.value.college_names = << <<"VIT">>, <<"SRM">> >>
    /\ probe.out.value.location = Some(<<"Pune">>)

\* The rule groups of the fast router, on the lower-cased query.  A numeric
\* rank token is a number next to rank, percentile or score, blanks aside.
ComparisonGroup(s) == \E w \in ComparisonWords : HasWord(s, w)
ExamGroup(s) == \E kw \in exam_keywords : Contains(s, kw)
CollegeGroup(s) == \E kw \in college_specific : Contains(s, kw)
TopCollegePhrase(s) == \E w \in TopWords : WordThenCollege(s, w)
NumericRankToken(s) ==
    DigitsThen(s, {RANK, PERCENTILE, SCORE}) \/ ThenDigits(s, {RANK, PERCENTILE, SCORE})
RankGroup(s) ==
    \/ DigitsThen(s, {RANK, PERCENTILE})
    \/ ThenDigits(s, {RANK, PERCENTILE, SCORE})
    \/ HasWord(s, CAN_I_GET)
    \/ WhichCollegesDigits(s)

\* C22: fast_route returns the category of the first matching group in the
\* order comparison, exam, college-specific, top-college phrasing without a
\* numeric rank token, rank phrasing; a top-college phrasing with a numeric
\* rank token is never TOP_COLLEGES; the sample query "How can I get
\* admission to VIT Vellore?" is COLLEGE; no matching group gives no opinion.
C22_FastRouteOrder ==
    probe.fn = "route_query" =>
        LET s == Lower(probe.query)
            f == FastRoute(probe.query)
        IN  /\ f = (IF ComparisonGroup(s) THEN "COMPARISON"
                    ELSE IF ExamGroup(s) THEN "EXAM"
                    ELSE IF CollegeGroup(s) THEN "COLLEGE"
                    ELSE IF TopCollegePhrase(s) /\ ~NumericRankToken(s) THEN "TOP_COLLEGES"
                    ELSE IF RankGroup(s) THEN "PREDICTOR"
                    ELSE NoCategory)
            /\ (TopCollegePhrase(s) /\ NumericRankToken(s)) => f # "TOP_COLLEGES"
            /\ (CollegeGroup(s) /\ RankGroup(s) /\ ~ComparisonGroup(s) /\ ~ExamGroup(s)) =>
                  f = "COLLEGE"

\* C23: check_relevance(query, []) returns irrelevant for every query, and
\* makes no call to the completion service.
C23_EmptyDocsIrrelevant ==
    (probe.fn = "check_relevance" /\ probe.docs = <<>>) =>
        /\ probe.out = Returned(Irrelevant)
        /\ probe.calls = 0

\* C23 witness: check_relevance was called with no documents while the
\* service would have answered relevant.
C23_Witness ==
    /\ probe.fn = "check_relevance"
    /\ probe.docs = <<>>
    /\ probe.reply.ok /\ probe.reply.text = Relevant
    /\ probe.out = Returned(Irrelevant)

\* C24 as stated: for a non-empty document list check_relevance returns one
\* of the three tokens and never raises; it returns the service's answer
\* when the answer is exactly one of the three tokens, and partial for any
\* other answer and for any failure.
C24_ExactTokenOrPartial ==
    (probe.fn = "check_relevance" /\ probe.docs # <<>>) =>
        /\ probe.out.kind = "result"
        /\ probe.out.value \in {Relevant, Partial, Irrelevant}
        /\ probe.out.value =
              (IF probe.reply.ok /\ probe.reply.text \in {Relevant, Partial, Irrelevant}
               THEN probe.reply.text ELSE Partial)

\* C24 amended: for a non-empty document list check_relevance returns one
\* of the three tokens and never raises; it returns the token that the
\* service's answer is once trimmed of blanks and lower-cased, and partial
\* for any other answer and for any failure.
C24_NormalisedTokenOrPartial ==
    (probe.fn = "check_relevance" /\ probe.docs # <<>>) =>
        /\ probe.out.kind = "result"
        /\ probe.out.value \in {Relevant, Partial, Irrelevant}
        /\ probe.out.value =
              (IF probe.reply.ok /\ Lower(Strip(probe.reply.text)) \in {Relevant, Partial, Irrelevant}
               THEN Lower(Strip(probe.reply.text)) ELSE Partial)

\* C24 witness: the service answered " Relevant" for a non-empty list, and
\* check_relevance returned relevant.
C24_Witness ==
    /\ probe.fn = "check_relevance"
    /\ probe.docs # <<>>
    /\ probe.reply.ok
    /\ probe.reply.text \notin {Relevant, Partial, Irrelevant}
    /\ probe.out = Returned(Relevant)

\* The reformulation as rephrase_query trims it: blanks, then double quotes,
\* then single quotes, at both ends.
Trimmed(text) == StripChars(StripChars(StripChars(text, Whitespace), {"dq"}), {"sq"})

\* C25: rephrase_query returns the query unchanged when the call fails or
\* the trimmed reformulation is empty, and the trimmed reformulation
\* otherwise; it never raises, and never returns the empty text for a
\* non-empty query.
C25_RephraseFallback ==
    probe.fn = "rephrase_query" =>
        /\ probe.out.kind = "result"
        /\ (~probe.reply.ok \/ Trimmed(probe.reply.text) = <<>>) =>
              probe.out.value = probe.query
        /\ (probe.reply.ok /\ Trimmed(probe.reply.text) # <<>>) =>
              probe.out.value = Trimmed(probe.reply.text)
        /\ probe.query # <<>> => probe.out.value # <<>>

\* C25 witness: the answer was nothing but blanks and quotes, and
\* rephrase_query returned the query.
C25_Witness ==
    /\ probe.fn = "rephrase_query"
    /\ probe.reply.ok
    /\ probe.reply.text # <<>>
    /\ Trimmed(probe.reply.text) = <<>>
    /\ probe.out = Returned(probe.query)

\* Result i carries a distance: the key is there and holds a number.
HasDistance(result) == result.has = "value"

\* C26: should_use_web_search(documents, threshold) returns false if and
\* only if at least one document has a distance strictly below the
\* threshold; it returns true for the empty list; and a document with no
\* distance never suppresses web search.
C26_WebSearchUnlessCloseMatch ==
    probe.fn = "should_use_web_search" =>
        LET results == probe.results
            close(i) == HasDistance(results[i])
                            /\ results[i].distance < probe.confidence_threshold
        IN  /\ probe.out = FALSE <=> \E i \in 1..Len(results) : close(i)
            /\ results = <<>> => probe.out = TRUE
            /\ (\A i \in 1..Len(results) : ~HasDistance(results[i])) => probe.out = TRUE

\* C27: a COLLEGE run with the toggle off in which every search returns
\* nothing has a result with has_local_results false, with web_search_used
\* equal to auto_web_triggered, and with auto_web_triggered only if the
\* verifier marked both attempt 1 and attempt 2 irrelevant.
C27_CollegeNothingFound ==
    \A sc \in Scenarios(query) :
        (Attempt1Fetched /\ route_result.category = "COLLEGE" /\ ~web_search_enabled
            /\ raw_docs = <<>> /\ SecondSearchAnswers(sc) /\ Docs2(sc) = <<>>) =>
            /\ HasResult
            /\ ~outcome.value.has_local_results
            /\ outcome.value.web_search_used = outcome.value.auto_web_triggered
            /\ outcome.value.auto_web_triggered =>
                  /\ Verdict1(sc) = Irrelevant
                  /\ Rephrased(sc) # query
                  /\ Verdict2(sc) = Irrelevant

\* C28: under any interleaving of simultaneous first uses, each lazily
\* created handle is constructed at most once, and every caller of its
\* getter observes the same handle.
C28_SingletonsBuiltOnce ==
    \A g \in Singletons :
        /\ constructed[g] <= 1
        /\ Cardinality(observed[g]) <= 1

\* The headers of the sections that show structured rows, and of those that
\* show retrieved chunks.
StructuredSections ==
    {"=== Structured College Data ===", "=== Exam Schedule Data ===",
     "=== Structured Comparison Data ===", "=== college 1 ===", "=== college 2 ===",
     "=== College Predictor Results ===", "=== Top Colleges Ranking ==="}
VectorSections ==
    {"=== Detailed Information ===", "=== Detailed Exam Information ===",
     "=== Detailed Comparison Content ===", "=== Related Information ==="}

\* C29: each of the five builders returns needs_web_search = NOT
\* has_local_results; has_local_results is false exactly when none of its
\* structured lookups and none of its semantic searches returned anything;
\* so it is true whenever the context text has a structured or a vector
\* section.
C29_HasResultsIffAnyLookup ==
    probe.fn = "build_prompt_context" =>
        LET out == probe.out
        IN  /\ out.needs_web = ~out.has_results
            /\ ~out.has_results <=> \A i \in 1..Len(out.calls) : ~out.calls[i].found
            /\ (\E i \in 1..Len(out.full_context) :
                    out.full_context[i] \in StructuredSections \cup VectorSections)
                  => out.has_results

\* The first integer written in a rank/score string: the value of its first
\* run of digits.
HasDigit(text) == \E i \in 1..Len(text) : IsDigitAt(text, i)
FirstInteger(text) ==
    LET first == CHOOSE i \in 1..Len(text) :
                     IsDigitAt(text, i) /\ \A j \in 1..(i - 1) : ~IsDigitAt(text, j)
        last == CHOOSE k \in first..Len(text) :
                     /\ \A j \in first..k : IsDigitAt(text, j)
                     /\ (k = Len(text) \/ ~IsDigitAt(text, k + 1))
    IN  ToInt(SubSeq(text, first, last))
Ascending(rows) ==
    \A i, j \in 1..Len(rows) : i <= j => rows[i].nirf_rank <= rows[j].nirf_rank

\* C30: the predictor's rank is the first integer in the rank/score string,
\* none if there is no digit.  Whenever a rank is present, one structured
\* query is made, with threshold min(rank * 2, 200) when rank < 100 and 200
\* otherwise; it returns at most 15 rows in ascending ranking order, the
\* threshold never exceeds 200 and is non-decreasing in the rank.  When no
\* rank is present, no structured query is made.
C30_PredictorThreshold ==
    (probe.fn = "build_prompt_context" /\ probe.category = "PREDICTOR") =>
        LET rank_score == probe.args.rank_score
            present == rank_score # NoName /\ HasDigit(rank_score.some)
            rank == FirstInteger(rank_score.some)
            calls == probe.out.calls
            queries == {i \in 1..Len(calls) : calls[i].call = "get_colleges_by_nirf"}
        IN  /\ ParseRankScore(rank_score) = (IF present THEN SomeInt(rank) ELSE None)
            /\ present =>
                  /\ Cardinality(queries) = 1
                  /\ \A i \in queries :
                        /\ calls[i].max_rank =
                              (IF rank < 100
                               THEN (IF rank * 2 < 200 THEN rank * 2 ELSE 200) ELSE 200)
                        /\ calls[i].max_rank <= 200
                        /\ \A lower \in 0..rank : MaxNirf(lower) <= calls[i].max_rank
                  /\ Len(probe.out.sql_data) <= 15
                  /\ Ascending(probe.out.sql_data)
            /\ ~present => queries = {}

\* The calls a builder made, and the positions of those of one kind.
BuilderCalls == probe.out.calls
CallsOf(kinds) == {i \in 1..Len(BuilderCalls) : BuilderCalls[i].call \in kinds}
SearchCalls == CallsOf({"search_by_type", "search_comparisons"})

\* C31: the COMPARISON builder, given two or more college names, makes the
\* structured comparison lookup before any semantic search, and the lookup
\* finds a stored pair in either name order; given zero or one name it
\* makes no comparison lookup; and given at least one name it fetches the
\* individual structured record of each named college.
C31_ComparisonLookups ==
    (probe.fn = "build_prompt_context" /\ probe.category = "COMPARISON") =>
        LET names == probe.args.college_names
            lookups == CallsOf({"query_comparison"})
        IN  /\ Len(names) >= 2 =>
                  /\ lookups # {}
                  /\ \A i \in lookups, j \in SearchCalls : i < j
                  /\ \A i \in lookups :
                        BuilderCalls[i].found <=>
                            \E p \in probe.world.comparison :
                                {p[1], p[2]} = {names[1], names[2]}
            /\ Len(names) <= 1 => lookups = {}
            /\ \A k \in 1..Len(names) :
                  \E i \in CallsOf({"query_college"}) : BuilderCalls[i].arg = names[k]

\* C33: the COLLEGE builder makes one exact-name structured lookup per
\* extracted college name, and makes the location-filtered top-colleges
\* query only when no college was named and a location is present: never
\* when colleges were named, even if none of them was found.
C33_CollegeStructuredPolicy ==
    (probe.fn = "build_prompt_context" /\ probe.category = "COLLEGE") =>
        LET names == probe.args.college_names
            by_name == CallsOf({"query_college"})
        IN  /\ Cardinality(by_name) = Len(names)
            /\ \A k \in 1..Len(names) :
                  BuilderCalls[k].call = "query_college" /\ BuilderCalls[k].arg = names[k]
            /\ CallsOf({"query_top_colleges"}) # {} =>
                  names = <<>> /\ probe.args.location # NoName

\* The positions, in the list the search returned, of the documents that
\* _get_raw_docs returned.
ReturnedRanks == [i \in 1..Len(probe.out) |-> probe.out[i].rank]
NamesSome(i) ==
    \E k \in 1..Len(probe.college_names) :
        \/ Contains(Lower(probe.found[i].content), Lower(probe.college_names[k]))
        \/ Contains(Lower(probe.found[i].url), Lower(probe.college_names[k]))
AllRanks == [i \in 1..Len(probe.found) |-> i]

PulledWithContent ==
    Cardinality({i \in 1..pulled : completion.chunks[i].ok
                                      /\ completion.chunks[i].content # <<>>})

RepeatsPrev ==
    /\ prev # NoPrev
    /\ prev.query = query
    /\ prev.web_search_enabled = web_search_enabled

C35_KeyIsTextAndToggle ==
    /\ \A q1 \in Queries, q2 \in Queries, w1 \in BOOLEAN, w2 \in BOOLEAN :
          CacheKey(q1, w1) = CacheKey(q2, w2) <=>
              (Lower(Strip(q1)) = Lower(Strip(q2)) /\ w1 = w2)
    /\ [][/\ (pc = "idle" /\ pc' # "idle" /\ ~stream') =>
                /\ pc' = "returned" <=>
                      \E k \in DOMAIN query_cache :
                          k[1] = Lower(Strip(query')) /\ k[2] = web_search_enabled'
                /\ pc' = "returned" =>
                      \A k \in DOMAIN query_cache :
                          (k[1] = Lower(Strip(query')) /\ k[2] = web_search_enabled') =>
                              outcome' = Returned(query_cache[k])
          /\ Len(cache_keys') = Len(cache_keys) + 1 =>
                \A k \in DOMAIN query_cache :
                    k # cache_keys'[Len(cache_keys')] =>
                        (k \in DOMAIN query_cache' /\ query_cache'[k] = query_cache[k])
         ]_vars

\* C35 witness: a call with the toggle off and a query that differs from
\* the stored text by case and a trailing blank was answered from the cache
\* with a result that used web search, while the same text's slot for the
\* toggle on is empty.
C35_Witness ==
    /\ pc = "returned"
    /\ trace = <<>>
    /\ query = <<"A", " ">>
    /\ ~web_search_enabled
    /\ outcome.value.web_search_used
    /\ <<<<"a">>, FALSE>> \in DOMAIN query_cache
    /\ <<<<"a">>, TRUE>> \notin DOMAIN query_cache

\* No request is inside _set_cached.
Quiescent == \A t \in Threads : threads[t].at = "idle"

\* C40: whatever the interleaving of overlapping non-streaming requests,
\* two requests with the same key that both missed the cache included, once
\* the insertions have returned the key list has no key twice and holds
\* exactly the keys of the cache map.
C40_KeyListMatchesMap ==
    Quiescent =>
        /\ \A i \in 1..Len(cache_keys), j \in 1..Len(cache_keys) :
              cache_keys[i] = cache_keys[j] => i = j
        /\ {cache_keys[i] : i \in 1..Len(cache_keys)} = DOMAIN query_cache

====
